---- MODULE Spec2Model ----
(***************************************************************************)
(* Job repository of cc-backend (internal/repository/job.go): the          *)
(* asynchronous archiving pipeline, the metadata accessors routed through  *)
(* the result cache, the cached partition lists, lookups and statistics;   *)
(* and the import of a job archive (init-db.go).                           *)
(*                                                                         *)
(* The specifications share the variables; each moves only the part of     *)
(* the state its operations touch:                                         *)
(*   SpecArchive  GetJobRepository, TriggerArchiving, WaitForArchiving and *)
(*                the archivingWorker loop (SpecFifo: with a channel that  *)
(*                holds several jobs)                                      *)
(*   SpecMeta     FetchMetadata, FetchJobName, UpdateMetadata (SpecMetaSeq *)
(*                is the same with the calls made one after the other)     *)
(*   SpecRef      FetchMetadata and UpdateMetadata with the identity of    *)
(*                the map objects                                          *)
(*   SpecPartSeq  Start, DeleteJobsBefore, DeleteJobById, Partitions       *)
(*   SpecCache    the result cache: cost, eviction, expiry                 *)
(*   SpecFind     FindColumnValue, FindColumnValues,                       *)
(*                FindUserOrProjectOrJobname                               *)
(*   SpecStats    CountGroupedJobs, JobsStatistics,                        *)
(*                jobsStatisticsHistogram: role check and filters          *)
(*   SpecSums     CountGroupedJobs, JobsStatistics: the rows and the       *)
(*                numbers                                                  *)
(*   SpecJobs     Find, FindAll, FindById, Stop,                           *)
(*                StopJobsExceedingWalltimeBy                              *)
(*   SpecMark     MarkArchived, UpdateMonitoringStatus                     *)
(*   SpecInitDB   initDB and loadJob (init-db.go)                          *)
(***************************************************************************)
EXTENDS Integers, Sequences, FiniteSets, TLC

VARIABLES
    jobRepoOnce,     \* sync.Once of GetJobRepository has run
    numWorkers,      \* number of archivingWorker goroutines started
    job,             \* the job table: id -> row
    cache,           \* r.cache: key -> value, the domain is the resident keys
    archiveChannel,  \* r.archiveChannel: the buffered channel, oldest first
    archivePending,  \* r.archivePending: the WaitGroup counter
    wpc,             \* position of each archivingWorker goroutine
    wjob,            \* the channel entry a worker holds
    wstats,          \* jobMeta.Statistics returned by the archive client
    trepo,           \* the thread holds the instance GetJobRepository returned
    tpc,             \* position of each request thread
    tjob,            \* the *schema.Job a thread works on
    tarchive,        \* the channel entry a thread is sending
    tcall,           \* the repository method a thread is inside
    targ,            \* arguments of that method
    tret,            \* what the last method of a thread returned
    hist,            \* history: one record per TriggerArchiving call
    waitFor,         \* history: the calls made before a thread's Wait started
    metaLog,         \* history: last value UpdateMetadata wrote per key
    nUpdates,        \* history: number of UpdateMetadata calls
    computing,       \* cache keys whose value is being computed by a Get
    lru,             \* r.cache: the resident entries, most recently used first
    lastOp,          \* history: the last operation on r.cache
    usertbl,         \* the user table: rows (username, name)
    fcall,           \* the lookup a caller makes, with what it returned
    scall,           \* the statistics call a caller makes: position, query
    qlog,            \* history: the queries that call has run
    now,             \* the clock, in seconds
    rcall,           \* the call made on the job table, with what it returned
    derived,         \* history: the last derived duration read per job
    heap,            \* the map objects allocated so far, by address
    returned,        \* history: addresses of the maps FetchMetadata returned
    initdb           \* the run of initDB: position, transaction, tables

vars == <<jobRepoOnce, numWorkers, job, cache, archiveChannel, archivePending,
          wpc, wjob, wstats, trepo, tpc, tjob, tarchive, tcall, targ, tret,
          hist, waitFor, metaLog, nUpdates, computing, lru, lastOp, usertbl, fcall, scall, qlog, now, rcall, derived, heap, returned, initdb>>

(***************************************************************************)
(* Bounds of the model.                                                    *)
(***************************************************************************)
\* The capacity of archiveChannel is 128 in the code (make(chan *schema.Job,
\* 128)); the model runs the same channel with a small capacity so that the
\* full channel is reached.
ArchiveChannelCap == 1
\* The capacity in the runs where several jobs wait in the channel.
WideChannelCap == 2
\* TriggerArchiving calls per behaviour.
MaxTriggers == 2
\* UpdateMetadata calls per behaviour.
MaxUpdates == 2

Threads == {"t1", "t2"}
Workers == {1, 2}
JobIds == {1, 2}

(***************************************************************************)
(* Values.                                                                 *)
(***************************************************************************)
Pending == "pending"
ArchivingFailed == "archiving-failed"
ArchivingSuccessful == "archiving-successful"
Terminal == {ArchivingFailed, ArchivingSuccessful}

\* Summary-statistic columns of a job row; 0 is the value before archiving.
StatColumns == {"flops_any_avg", "mem_used_max", "mem_bw_avg", "load_avg",
                "net_bw_avg", "file_bw_avg"}
NoStats == [c \in StatColumns |-> 0]

\* Metadata maps: map[string]string, nil or a finite map.
Keys == {"jobName", "note"}
Vals == {"x", "y"}
KeyOrder == <<"jobName", "note">>
EmptyKV == [k \in {} |-> "x"]
NilMap == [nil |-> TRUE, kv |-> EmptyKV]
MkMap(f) == [nil |-> FALSE, kv |-> f]
Maps == {NilMap} \cup {MkMap(f) : f \in UNION {[D -> Vals] : D \in SUBSET Keys}}

\* Stored blobs: a zero-length blob, the JSON text null, a JSON object (its
\* members in the order json.Marshal writes them, sorted by key).
EmptyRaw == [kind |-> "empty", pairs |-> <<>>]
NullRaw == [kind |-> "null", pairs |-> <<>>]

RECURSIVE PairsOf(_, _)
PairsOf(f, i) ==
    IF i > Len(KeyOrder) THEN <<>>
    ELSE IF KeyOrder[i] \in DOMAIN f
         THEN <<(<<KeyOrder[i], f[KeyOrder[i]]>>)>> \o PairsOf(f, i + 1)
         ELSE PairsOf(f, i + 1)

\* json.Marshal(map[string]string)
Marshal(m) ==
    IF m.nil THEN NullRaw ELSE [kind |-> "obj", pairs |-> PairsOf(m.kv, 1)]

\* len(job.RawMetaData)
RawLen(raw) ==
    CASE raw.kind = "empty" -> 0
      [] raw.kind = "null" -> 4
      [] OTHER -> 2 + Len(raw.pairs)

\* json.Unmarshal(raw, &m): null sets m to nil; an object is decoded into m,
\* which is allocated when nil and otherwise keeps the entries it has.
Unmarshal(raw, m) ==
    IF raw.kind = "null" THEN NilMap
    ELSE LET ks == {raw.pairs[i][1] : i \in 1..Len(raw.pairs)}
             last(k) == CHOOSE i \in 1..Len(raw.pairs) :
                           /\ raw.pairs[i][1] = k
                           /\ \A j \in 1..Len(raw.pairs) :
                                 raw.pairs[j][1] = k => j <= i
         IN MkMap([k \in ks \cup DOMAIN m.kv |->
                     IF k \in ks THEN raw.pairs[last(k)][2] ELSE m.kv[k]])

\* A fresh *schema.Job as scanJob builds it: MetaData is not loaded.
NewJob(id) == [ID |-> id, MetaData |-> NilMap, RawMetaData |-> EmptyRaw]

(***************************************************************************)
(* The result cache (pkg/lrucache), as the repository uses it.             *)
(***************************************************************************)
MetaKey(id) == <<"metadata", id>>
PartKey(cluster) == <<"partitions", cluster>>

CacheHas(c, k) == k \in DOMAIN c
CachePut(c, k, v) == [x \in DOMAIN c \cup {k} |-> IF x = k THEN v ELSE c[x]]
CacheDel(c, k) == [x \in DOMAIN c \ {k} |-> c[x]]
EmptyCache == [k \in {} |-> NilMap]

(***************************************************************************)
(* Single-statement writes of the job table.                               *)
(***************************************************************************)
\* UPDATE job SET monitoring_status = ? WHERE job.id = ?
UpdateStatusClearsStats(tbl, id, status) ==
    [tbl EXCEPT ![id] =
        IF @.present
        THEN [@ EXCEPT !.monitoring_status = status, !.stats = NoStats]
        ELSE @]
UpdateMonitoringStatus(tbl, id, status) ==
    [tbl EXCEPT ![id] =
        IF @.present THEN [@ EXCEPT !.monitoring_status = status] ELSE @]

\* The column MarkArchived sets for a metric, "" for an unknown metric.
StatColumn(metric) ==
    CASE metric = "flops_any" -> "flops_any_avg"
      [] metric = "mem_used" -> "mem_used_max"
      [] metric = "mem_bw" -> "mem_bw_avg"
      [] metric = "load" -> "load_avg"
      [] metric = "net_bw" -> "net_bw_avg"
      [] metric = "file_bw" -> "file_bw_avg"
      [] OTHER -> ""

\* The value MarkArchived writes for a metric: stats.Max for mem_used,
\* stats.Avg for the others; a variant that writes stats.Avg throughout.
StatValueAvg(metric, st) == st.Avg

StatValue(metric, st) == IF metric = "mem_used" THEN st.Max ELSE st.Avg

\* UPDATE job SET monitoring_status = ?, <columns> WHERE job.id = ?
MarkArchived(tbl, id, status, metricStats) ==
    LET set == {m \in DOMAIN metricStats : StatColumn(m) # ""}
        newStats(old) ==
            [c \in StatColumns |->
                IF \E m \in set : StatColumn(m) = c
                THEN LET mc == CHOOSE x \in set : StatColumn(x) = c
                     IN StatValue(mc, metricStats[mc])
                ELSE old[c]]
    IN [tbl EXCEPT ![id] =
          IF @.present
          THEN [@ EXCEPT !.monitoring_status = status, !.stats = newStats(@)]
          ELSE @]

(***************************************************************************)
(* Initial state: the process has started, GetJobRepository has not been   *)
(* called, the job table holds its rows.                                   *)
(***************************************************************************)
Clusters == {"c1", "c2"}
Partitions == {"p1", "p2"}
Times == {1, 2}

Row(cl, part, start, raw) ==
    [present |-> TRUE, monitoring_status |-> Pending, stats |-> NoStats,
     meta_data |-> raw, cluster |-> cl, partition |-> part,
     start_time |-> start, user |-> <<"a", "n">>, project |-> <<"p", "a">>,
     job_state |-> "running", duration |-> 0, walltime |-> 0,
     job_id |-> 7, subcluster |-> "s1", num_nodes |-> 1]
NoRow ==
    [present |-> FALSE, monitoring_status |-> Pending, stats |-> NoStats,
     meta_data |-> EmptyRaw, cluster |-> "c1", partition |-> "p1",
     start_time |-> 1, user |-> <<"a", "n">>, project |-> <<"p", "a">>,
     job_state |-> "running", duration |-> 0, walltime |-> 0,
     job_id |-> 7, subcluster |-> "s1", num_nodes |-> 1]

\* No derived duration has been read.
NotRead == [read |-> FALSE, duration |-> 0]

\* No call on the job table is being made.
NoCall ==
    [op |-> "none", id |-> 0, seconds |-> 0, at |-> 0, err |-> FALSE,
     jobs |-> <<>>, before |-> <<>>, status |-> Pending, stats |-> <<>>]

\* auth.GetUser(ctx) == nil
NoCaller == [name |-> <<>>, roles |-> {}, present |-> FALSE]

\* No statistics call is being made.
NoStatsCall ==
    [op |-> "none", pc |-> "idle", user |-> "none", filters |-> 0,
     groupBy |-> FALSE, hist |-> FALSE, i |-> 0, groups |-> 0,
     query |-> <<>>, checkedAt |-> -1, err |-> "nil", res |-> "nil",
     caller |-> NoCaller, col |-> "", config |-> <<>>, driver |-> "sqlite3",
     stats |-> <<>>, errs |-> <<>>, dropped |-> {}]

\* No lookup is being made.
NoLookup ==
    [op |-> "none", user |-> [name |-> <<>>, roles |-> {}, present |-> FALSE],
     term |-> <<>>, out |-> <<>>]

NoEntry == [job |-> NewJob(1), ticket |-> 0]
NoArgs ==
    [key |-> "note", val |-> "x", cluster |-> "c1", partition |-> "p1",
     start |-> 1, id |-> 1]
NoReturn ==
    [err |-> FALSE, val |-> NilMap, name |-> "nil", parts |-> {},
     hit |-> FALSE, count |-> 0]

\* initDB is not running.  i: jobs loaded; tx: the open transaction and the
\* jobs in it; tags: the map of tag strings to ids; jobtbl, tagtbl, jobtag:
\* the rows inserted; wanted: the (job, tag) pairs of the files read.
NoInitDB ==
    [pc |-> "idle", n |-> 0, i |-> 0, tx |-> [open |-> FALSE, jobs |-> 0],
     opened |-> 0, committed |-> 0, tags |-> <<>>, jobtbl |-> {},
     tagtbl |-> <<>>, jobtag |-> {}, wanted |-> {}, ret |-> "none"]

InitCommon ==
    /\ jobRepoOnce = FALSE
    /\ numWorkers = 0
    /\ cache = EmptyCache
    /\ archiveChannel = <<>>
    /\ archivePending = 0
    /\ wpc = [w \in Workers |-> "recv"]
    /\ wjob = [w \in Workers |-> NoEntry]
    /\ wstats = [w \in Workers |-> EmptyKV]
    /\ trepo = [t \in Threads |-> FALSE]
    /\ tpc = [t \in Threads |-> "idle"]
    /\ tjob = [t \in Threads |-> NewJob(1)]
    /\ tarchive = [t \in Threads |-> NoEntry]
    /\ tcall = [t \in Threads |-> "none"]
    /\ targ = [t \in Threads |-> NoArgs]
    /\ tret = [t \in Threads |-> NoReturn]
    /\ hist = <<>>
    /\ waitFor = [t \in Threads |-> {}]
    /\ metaLog = [i \in JobIds |-> EmptyKV]
    /\ nUpdates = 0
    /\ computing = {}
    /\ lru = <<>>
    /\ lastOp = [op |-> "none", key |-> <<>>, evicted |-> {}]
    /\ usertbl = {}
    /\ fcall = NoLookup
    /\ scall = NoStatsCall
    /\ qlog = <<>>
    /\ now = 0
    /\ rcall = NoCall
    /\ derived = [i \in JobIds |-> NotRead]
    /\ heap = <<>>
    /\ returned = {}
    /\ initdb = NoInitDB

(***************************************************************************)
(* GetJobRepository.                                                       *)
(***************************************************************************)
\* jobRepoOnce.Do(f) runs f in the first call only.
OnceRunsEveryCall == TRUE
OnceRuns == ~jobRepoOnce

GetJobRepository(t) ==
    /\ tpc[t] = "idle"
    /\ ~trepo[t]
    /\ IF OnceRuns
       THEN /\ jobRepoOnce' = TRUE
            /\ numWorkers' = numWorkers + 1     \* go archivingWorker()
       ELSE UNCHANGED <<jobRepoOnce, numWorkers>>
    /\ trepo' = [trepo EXCEPT ![t] = TRUE]
    /\ UNCHANGED <<job, cache, archiveChannel, archivePending, wpc, wjob,
                   wstats, tpc, tjob, tarchive, tcall, targ, tret, hist,
                   waitFor, metaLog, nUpdates, computing, lru, lastOp, usertbl, fcall, scall, qlog, now, rcall, derived, heap, returned, initdb>>

(***************************************************************************)
(* TriggerArchiving and WaitForArchiving.                                  *)
(***************************************************************************)
\* r.archivePending.Add(1)
TriggerArchivingAdd(t, id) ==
    /\ tpc[t] = "idle"
    /\ trepo[t]
    /\ Len(hist) < MaxTriggers
    /\ job[id].present
    /\ archivePending' = archivePending + 1
    /\ tarchive' = [tarchive EXCEPT
                       ![t] = [job |-> NewJob(id), ticket |-> Len(hist) + 1]]
    /\ hist' = Append(hist, [id |-> id, outcome |-> "none", calls |-> 0,
                             order |-> 0, full |-> Len(archiveChannel) = ArchiveChannelCap,
                             sent |-> 0, together |-> FALSE])
    /\ tpc' = [tpc EXCEPT ![t] = "send"]
    /\ UNCHANGED <<jobRepoOnce, numWorkers, job, cache, archiveChannel, wpc,
                   wjob, wstats, trepo, tjob, tcall, targ, tret, waitFor,
                   metaLog, nUpdates, computing, lru, lastOp, usertbl, fcall, scall, qlog, now, rcall, derived, heap, returned, initdb>>

\* The send blocks while the channel holds cap(archiveChannel) entries.
ChannelUnbounded == TRUE
ChannelHasRoom == Len(archiveChannel) < ArchiveChannelCap

\* The job of t enters the channel; h is the record of the calls after it.
Enqueue(t, h) ==
    /\ tpc[t] = "send"
    /\ archiveChannel' = Append(archiveChannel, tarchive[t])
    /\ tarchive' = [tarchive EXCEPT ![t] = NoEntry]
    /\ hist' = h
    /\ tpc' = [tpc EXCEPT ![t] = "idle"]
    /\ UNCHANGED <<jobRepoOnce, numWorkers, job, cache, archivePending, wpc,
                   wjob, wstats, trepo, tjob, tcall, targ, tret,
                   waitFor, metaLog, nUpdates, computing, lru, lastOp, usertbl, fcall, scall, qlog, now, rcall, derived, heap, returned, initdb>>

\* r.archiveChannel <- job
TriggerArchivingSend(t) == ChannelHasRoom /\ Enqueue(t, hist)

\* WaitForArchiving is entered: r.archivePending.Wait() starts.
WaitForArchivingCall(t) ==
    /\ tpc[t] = "idle"
    /\ trepo[t]
    /\ tpc' = [tpc EXCEPT ![t] = "wait"]
    /\ waitFor' = [waitFor EXCEPT ![t] = 1..Len(hist)]
    /\ UNCHANGED <<jobRepoOnce, numWorkers, job, cache, archiveChannel,
                   archivePending, wpc, wjob, wstats, trepo, tjob, tarchive,
                   tcall, targ, tret, hist, metaLog, nUpdates, computing, lru, lastOp, usertbl, fcall, scall, qlog, now, rcall, derived, heap, returned, initdb>>

\* Wait() returns when the counter is zero.
WaitNeverBlocks == TRUE
WaitCanReturn == archivePending = 0

WaitForArchivingReturn(t) ==
    /\ tpc[t] = "wait"
    /\ WaitCanReturn
    /\ tpc' = [tpc EXCEPT ![t] = "waited"]
    /\ UNCHANGED <<jobRepoOnce, numWorkers, job, cache, archiveChannel,
                   archivePending, wpc, wjob, wstats, trepo, tjob, tarchive,
                   tcall, targ, tret, hist, waitFor, metaLog, nUpdates, computing, lru, lastOp, usertbl, fcall, scall, qlog, now, rcall, derived, heap, returned, initdb>>

\* The caller goes on after WaitForArchiving.
WaitForArchivingDone(t) ==
    /\ tpc[t] = "waited"
    /\ tpc' = [tpc EXCEPT ![t] = "idle"]
    /\ waitFor' = [waitFor EXCEPT ![t] = {}]
    /\ UNCHANGED <<jobRepoOnce, numWorkers, job, cache, archiveChannel,
                   archivePending, wpc, wjob, wstats, trepo, tjob, tarchive,
                   tcall, targ, tret, hist, metaLog, nUpdates, computing, lru, lastOp, usertbl, fcall, scall, qlog, now, rcall, derived, heap, returned, initdb>>

(***************************************************************************)
(* archivingWorker: one loop iteration per received channel entry.         *)
(***************************************************************************)
\* What the archive client (metricdata.ArchiveJob) can hand back in
\* jobMeta.Statistics: metric name -> {Avg, Max}.
StatChoices ==
    {[m \in {"flops_any", "mem_used", "cpu_user"} |-> [Avg |-> 1, Max |-> 2]]}

Running(w) == w <= numWorkers

\* History: ticket k ends with outcome o, as the order-th finished entry.
SetOutcome(h, k, o) ==
    [h EXCEPT ![k].outcome = o,
              ![k].order = 1 + Cardinality({i \in 1..Len(h) :
                                               h[i].outcome # "none"})]

\* A receive takes the entry that has been in the channel longest; a
\* variant that takes the newest.
ReceivesNewest(ch) == Len(ch)

Receives(ch) == 1

\* case job, ok := <-r.archiveChannel
WorkerReceive(w) ==
    /\ Running(w)
    /\ wpc[w] = "recv"
    /\ Len(archiveChannel) > 0
    /\ wjob' = [wjob EXCEPT ![w] = archiveChannel[Receives(archiveChannel)]]
    /\ archiveChannel' =
          [i \in 1..(Len(archiveChannel) - 1) |->
              IF i < Receives(archiveChannel) THEN archiveChannel[i]
              ELSE archiveChannel[i + 1]]
    /\ wpc' = [wpc EXCEPT ![w] = "fm_get"]
    /\ UNCHANGED <<jobRepoOnce, numWorkers, job, cache, archivePending,
                   wstats, trepo, tpc, tjob, tarchive, tcall, targ, tret,
                   hist, waitFor, metaLog, nUpdates, computing, lru, lastOp, usertbl, fcall, scall, qlog, now, rcall, derived, heap, returned, initdb>>

\* FetchMetadata(job), the cache lookup.
WorkerFetchGet(w) ==
    /\ Running(w)
    /\ wpc[w] = "fm_get"
    /\ LET k == MetaKey(wjob[w].job.ID) IN
         IF CacheHas(cache, k)
         THEN /\ wjob' = [wjob EXCEPT ![w].job.MetaData = cache[k]]
              /\ wpc' = [wpc EXCEPT ![w] = "archive"]
         ELSE /\ wpc' = [wpc EXCEPT ![w] = "fm_query"]
              /\ UNCHANGED wjob
    /\ UNCHANGED <<jobRepoOnce, numWorkers, job, cache, archiveChannel,
                   archivePending, wstats, trepo, tpc, tjob, tarchive, tcall,
                   targ, tret, hist, waitFor, metaLog, nUpdates, computing, lru, lastOp, usertbl, fcall, scall, qlog, now, rcall, derived, heap, returned, initdb>>

\* FetchMetadata(job), SELECT job.meta_data ... Scan(&job.RawMetaData).
WorkerFetchQuery(w) ==
    /\ Running(w)
    /\ wpc[w] = "fm_query"
    /\ \E dbOk \in BOOLEAN :
         IF dbOk /\ job[wjob[w].job.ID].present
         THEN /\ wjob' = [wjob EXCEPT ![w].job.RawMetaData =
                                         job[wjob[w].job.ID].meta_data]
              /\ wpc' = [wpc EXCEPT ![w] = "fm_put"]
         ELSE /\ wpc' = [wpc EXCEPT ![w] = "failed"]
              /\ UNCHANGED wjob
    /\ UNCHANGED <<jobRepoOnce, numWorkers, job, cache, archiveChannel,
                   archivePending, wstats, trepo, tpc, tjob, tarchive, tcall,
                   targ, tret, hist, waitFor, metaLog, nUpdates, computing, lru, lastOp, usertbl, fcall, scall, qlog, now, rcall, derived, heap, returned, initdb>>

\* FetchMetadata(job), decoding the blob and r.cache.Put.
WorkerFetchPut(w) ==
    /\ Running(w)
    /\ wpc[w] = "fm_put"
    /\ LET j == wjob[w].job IN
         IF RawLen(j.RawMetaData) = 0
         THEN /\ wpc' = [wpc EXCEPT ![w] = "archive"]
              /\ UNCHANGED <<wjob, cache>>
         ELSE LET m == Unmarshal(j.RawMetaData, j.MetaData) IN
              /\ wjob' = [wjob EXCEPT ![w].job.MetaData = m]
              /\ cache' = CachePut(cache, MetaKey(j.ID), m)
              /\ wpc' = [wpc EXCEPT ![w] = "archive"]
    /\ UNCHANGED <<jobRepoOnce, numWorkers, job, archiveChannel,
                   archivePending, wstats, trepo, tpc, tjob, tarchive, tcall,
                   targ, tret, hist, waitFor, metaLog, nUpdates, computing, lru, lastOp, usertbl, fcall, scall, qlog, now, rcall, derived, heap, returned, initdb>>

\* jobMeta, err := metricdata.ArchiveJob(job, context.Background())
WorkerArchiveJob(w) ==
    /\ Running(w)
    /\ wpc[w] = "archive"
    /\ \/ /\ wpc' = [wpc EXCEPT ![w] = "failed"]
          /\ UNCHANGED wstats
       \/ \E st \in StatChoices :
             /\ wstats' = [wstats EXCEPT ![w] = st]
             /\ wpc' = [wpc EXCEPT ![w] = "mark"]
    /\ hist' = [hist EXCEPT ![wjob[w].ticket].calls = @ + 1]
    /\ UNCHANGED <<jobRepoOnce, numWorkers, job, cache, archiveChannel,
                   archivePending, wjob, trepo, tpc, tjob, tarchive, tcall,
                   targ, tret, waitFor, metaLog, nUpdates, computing, lru, lastOp, usertbl, fcall, scall, qlog, now, rcall, derived, heap, returned, initdb>>

\* Where the loop goes after a failed step: continue.
AfterFailureStops == "stopped"
AfterFailureRetries == "archive"
AfterFailure == "recv"

\* The counter after a failed step: the failure branches do not call
\* r.archivePending.Done().
PendingAfterFailure(n) == n

\* r.UpdateMonitoringStatus(job.ID, MonitoringStatusArchivingFailed); continue
\* The error UpdateMonitoringStatus returns is dropped.
WorkerMarkFailed(w) ==
    /\ Running(w)
    /\ wpc[w] = "failed"
    /\ \E dbOk \in BOOLEAN :
         /\ job' = IF dbOk
                   THEN UpdateMonitoringStatus(job, wjob[w].job.ID,
                                               ArchivingFailed)
                   ELSE job
         /\ hist' = SetOutcome(hist, wjob[w].ticket, "failed")
    /\ archivePending' = PendingAfterFailure(archivePending)
    /\ wpc' = [wpc EXCEPT ![w] = AfterFailure]
    /\ UNCHANGED <<jobRepoOnce, numWorkers, cache, archiveChannel, wjob,
                   wstats, trepo, tpc, tjob, tarchive, tcall, targ, tret,
                   waitFor, metaLog, nUpdates, computing, lru, lastOp, usertbl, fcall, scall, qlog, now, rcall, derived, heap, returned, initdb>>

\* r.MarkArchived(job.ID, MonitoringStatusArchivingSuccessful,
\*                jobMeta.Statistics); on an error: continue.
WorkerMarkArchived(w) ==
    /\ Running(w)
    /\ wpc[w] = "mark"
    /\ \E dbOk \in BOOLEAN :
         IF dbOk
         THEN /\ job' = MarkArchived(job, wjob[w].job.ID, ArchivingSuccessful,
                                     wstats[w])
              /\ wpc' = [wpc EXCEPT ![w] = "done"]
              /\ UNCHANGED <<hist, archivePending>>
         ELSE /\ hist' = SetOutcome(hist, wjob[w].ticket, "unsaved")
              /\ archivePending' = PendingAfterFailure(archivePending)
              /\ wpc' = [wpc EXCEPT ![w] = AfterFailure]
              /\ UNCHANGED job
    /\ UNCHANGED <<jobRepoOnce, numWorkers, cache, archiveChannel, wjob,
                   wstats, trepo, tpc, tjob, tarchive, tcall, targ, tret,
                   waitFor, metaLog, nUpdates, computing, lru, lastOp, usertbl, fcall, scall, qlog, now, rcall, derived, heap, returned, initdb>>

\* r.archivePending.Done()
WorkerDone(w) ==
    /\ Running(w)
    /\ wpc[w] = "done"
    /\ archivePending' = archivePending - 1
    /\ hist' = SetOutcome(hist, wjob[w].ticket, "ok")
    /\ wpc' = [wpc EXCEPT ![w] = "recv"]
    /\ UNCHANGED <<jobRepoOnce, numWorkers, job, cache, archiveChannel, wjob,
                   wstats, trepo, tpc, tjob, tarchive, tcall, targ, tret,
                   waitFor, metaLog, nUpdates, computing, lru, lastOp, usertbl, fcall, scall, qlog, now, rcall, derived, heap, returned, initdb>>

(***************************************************************************)
(* The archiving pipeline.                                                 *)
(***************************************************************************)
\* Job 1 carries metadata, the others an empty blob.
InitArchive ==
    /\ InitCommon
    /\ job = [i \in JobIds |->
                Row("c1", "p1", 1,
                    IF i = 1 THEN Marshal(MkMap([k \in {"jobName"} |-> "x"]))
                    ELSE EmptyRaw)]

WorkerStep(w) ==
    \/ WorkerReceive(w)
    \/ WorkerFetchGet(w)
    \/ WorkerFetchQuery(w)
    \/ WorkerFetchPut(w)
    \/ WorkerArchiveJob(w)
    \/ WorkerMarkFailed(w)
    \/ WorkerMarkArchived(w)
    \/ WorkerDone(w)

NextArchive ==
    \/ \E t \in Threads : GetJobRepository(t)
    \/ \E t \in Threads, id \in JobIds : TriggerArchivingAdd(t, id)
    \/ \E t \in Threads : TriggerArchivingSend(t)
    \/ \E t \in Threads : WaitForArchivingCall(t)
    \/ \E t \in Threads : WaitForArchivingReturn(t)
    \/ \E t \in Threads : WaitForArchivingDone(t)
    \/ \E w \in Workers : WorkerStep(w)

SpecArchive == InitArchive /\ [][NextArchive]_vars

\* The worker goroutine keeps being scheduled, and a sender whose channel has
\* room completes its send.
FairArchive ==
    /\ SpecArchive
    /\ \A w \in Workers : WF_vars(WorkerStep(w))
    /\ \A t \in Threads : WF_vars(TriggerArchivingSend(t))

(***************************************************************************)
(* Properties of the archiving pipeline.                                   *)
(***************************************************************************)
Tickets == 1..Len(hist)
StatusOf(id) == job[id].monitoring_status
InChannel(k) == \E i \in 1..Len(archiveChannel) : archiveChannel[i].ticket = k
InSender(k) == \E t \in Threads : tpc[t] = "send" /\ tarchive[t].ticket = k
InWorker(k) == \E w \in Workers : wpc[w] # "recv" /\ wjob[w].ticket = k
Finished(k) == hist[k].outcome # "none"
\* Worker w ends a loop iteration in this step.
EndsIteration(w) == wpc[w] # "recv" /\ wpc'[w] = "recv"

\* C1: the worker decrements the pending-work counter when it has finished a
\* job's pipeline, whatever the outcome (metadata load failure, archive
\* client failure, failure to persist the result, success).
C1_DoneOnEveryOutcome ==
    [][\A w \in Workers :
          EndsIteration(w) => archivePending' = archivePending - 1]_vars

\* C2: when WaitForArchiving has returned, every job passed to
\* TriggerArchiving before the call started is through its pipeline and has a
\* terminal monitoring status in the store.
C2_WaitReturnsAfterTerminal ==
    \A t \in Threads :
        tpc[t] = "waited" =>
            \A k \in waitFor[t] :
                /\ ~InSender(k) /\ ~InChannel(k) /\ ~InWorker(k)
                /\ StatusOf(hist[k].id) \in Terminal

C2_Witness ==
    \E t \in Threads :
        /\ tpc[t] = "waited"
        /\ waitFor[t] # {}
        /\ \A k \in waitFor[t] : StatusOf(hist[k].id) = ArchivingSuccessful

\* C3 as stated: after a failed metadata load or archive-client call the
\* job's status is archiving-failed and nothing else in the table changed.
C3_FailureSetsFailed ==
    [][\A w \in Workers :
          (wpc[w] = "failed" /\ wpc'[w] # "failed") =>
              job' = [job EXCEPT ![wjob[w].job.ID].monitoring_status =
                                     ArchivingFailed]]_vars

\* C3 amended: after a failed metadata load or archive-client call the worker
\* issues the status update and drops its error: the row ends with status
\* archiving-failed when the update succeeds and unchanged when it fails; in
\* both cases the summary-statistic columns of the job and every other row
\* are unchanged.
C3_FailureWritesOnlyStatus ==
    [][\A w \in Workers :
          (wpc[w] = "failed" /\ wpc'[w] # "failed") =>
              \/ job' = [job EXCEPT ![wjob[w].job.ID].monitoring_status =
                                        ArchivingFailed]
              \/ job' = job]_vars

\* A job archived before, triggered again, whose second archive failed: the
\* status is archiving-failed and the statistics of the first archive stay.
C3_Witness ==
    \E k \in Tickets :
        /\ hist[k].outcome = "failed"
        /\ ~InWorker(k)
        /\ StatusOf(hist[k].id) = ArchivingFailed
        /\ job[hist[k].id].stats # NoStats

\* C4: a failure while archiving one job does not stop the worker: every job
\* passed to TriggerArchiving is in the end dequeued and processed.
C4_WorkerSurvivesFailure ==
    \A k \in 1..MaxTriggers :
        (k \in Tickets) ~> (k \in Tickets /\ Finished(k))

\* A job has failed and another job was processed after it.
C4_Witness ==
    \E k1, k2 \in Tickets :
        /\ hist[k1].outcome \in {"failed", "unsaved"}
        /\ hist[k2].outcome = "ok"
        /\ hist[k1].order < hist[k2].order

\* C5: exactly one archiving worker exists once the repository has been
\* obtained, however many threads obtained it, and at most one job is
\* between dequeue and its final status write.
C5_OneWorkerOneJob ==
    /\ numWorkers <= 1
    /\ (jobRepoOnce \/ \E t \in Threads : trepo[t]) => numWorkers = 1
    /\ Cardinality({w \in Workers : wpc[w] # "recv"}) <= 1
    /\ Cardinality({k \in Tickets : InWorker(k)}) <= 1

\* Every thread holds the repository, one job is in the pipeline and a
\* request thread is inside TriggerArchiving.
C5_Witness ==
    /\ \A t \in Threads : trepo[t]
    /\ \E w \in Workers : wpc[w] = "archive"
    /\ \E t \in Threads : tpc[t] = "send"

\* Each ticket is in exactly one place: with its blocked sender, in the
\* channel, with the worker, or finished.
Conserved(k) ==
    /\ Cardinality({i \in 1..Len(archiveChannel) :
                       archiveChannel[i].ticket = k}) <= 1
    /\ Cardinality({t \in Threads :
                       tpc[t] = "send" /\ tarchive[t].ticket = k}) <= 1
    /\ Cardinality({p \in {"sender", "channel", "worker", "finished"} :
                       \/ p = "sender" /\ InSender(k)
                       \/ p = "channel" /\ InChannel(k)
                       \/ p = "worker" /\ InWorker(k)
                       \/ p = "finished" /\ Finished(k) /\ ~InWorker(k)}) = 1
    /\ \A i \in 1..Len(archiveChannel) :
          archiveChannel[i].ticket = k => archiveChannel[i].job.ID = hist[k].id

\* C6: the archive channel never holds more than its capacity, a
\* TriggerArchiving call blocked on the full channel enqueues its job in the
\* end, and no job passed to TriggerArchiving is dropped or overwritten.
C6_BoundedNoLoss ==
    /\ [](Len(archiveChannel) <= ArchiveChannelCap)
    /\ [](\A k \in Tickets : Conserved(k))
    /\ \A t \in Threads : (tpc[t] = "send") ~> (tpc[t] # "send")

\* A call made while the channel was full has enqueued its job.
C6_Witness ==
    \E k \in Tickets : hist[k].full /\ (InChannel(k) \/ Finished(k))

\* C7 as stated: the monitoring status of a job only moves from pending to a
\* terminal value.
C7_OnlyFromPending ==
    [][\A id \in JobIds :
          StatusOf(id)' # StatusOf(id) =>
              StatusOf(id) = Pending /\ StatusOf(id)' \in Terminal]_vars

\* C7 amended: every status change goes to a terminal value, never back to
\* pending; each channel entry is passed to the archive client at most once;
\* the channel grows only by a TriggerArchiving send.
C7_OnlyToTerminalNoRetry ==
    [][/\ \A id \in JobIds :
             StatusOf(id)' # StatusOf(id) => StatusOf(id)' \in Terminal
       /\ \A k \in Tickets : hist'[k].calls <= 1
       /\ Len(archiveChannel') > Len(archiveChannel) =>
             \E t \in Threads : tpc[t] = "send" /\ tpc'[t] = "idle"]_vars

\* A job whose archive failed was triggered again and archived: its status
\* moved from archiving-failed to archiving-successful.
C7_Witness ==
    \E k1, k2 \in Tickets :
        /\ k1 # k2
        /\ hist[k1].id = hist[k2].id
        /\ hist[k1].outcome = "failed"
        /\ hist[k2].outcome = "ok"
        /\ hist[k1].order < hist[k2].order
        /\ StatusOf(hist[k2].id) = ArchivingSuccessful

(***************************************************************************)
(* Metadata accessors.  A thread works on its own *schema.Job, which it    *)
(* keeps from call to call or replaces by a freshly loaded one.  A call    *)
(* ends in position "ret" with its results in tret; the caller then takes  *)
(* them and is idle again.                                                 *)
(***************************************************************************)
MetaIds == {1}
\* The (key, value) pairs callers pass to UpdateMetadata.
UpdateArgs == {<<"note", "x">>, <<"jobName", "y">>}

threadOnly == <<jobRepoOnce, numWorkers, archiveChannel, archivePending, wpc,
                wjob, wstats, trepo, tarchive, hist, waitFor, computing, lru, lastOp, usertbl, fcall, scall, qlog, now, rcall, derived, heap, returned, initdb>>

\* The caller loads the job again (Find, FindById): MetaData is nil.
LoadJob(t, id) ==
    /\ tpc[t] = "idle"
    /\ tjob[t] # NewJob(id)
    /\ tjob' = [tjob EXCEPT ![t] = NewJob(id)]
    /\ UNCHANGED <<threadOnly, job, cache, tpc, tcall, targ, tret, metaLog,
                   nUpdates>>

\* The result cache drops an entry: its TTL has run out or it was evicted.
CacheExpire(k) ==
    /\ CacheHas(cache, k)
    /\ cache' = CacheDel(cache, k)
    /\ UNCHANGED <<threadOnly, job, tpc, tjob, tcall, targ, tret, metaLog,
                   nUpdates>>

\* The caller has the results of its call.  job.RawMetaData is written
\* before it is read in every accessor, so what a call leaves in it is dead.
Return(t) ==
    /\ tpc[t] = "ret"
    /\ tpc' = [tpc EXCEPT ![t] = "idle"]
    /\ tcall' = [tcall EXCEPT ![t] = "none"]
    /\ targ' = [targ EXCEPT ![t] = NoArgs]
    /\ tret' = [tret EXCEPT ![t] = NoReturn]
    /\ tjob' = [tjob EXCEPT ![t].RawMetaData = EmptyRaw]
    /\ UNCHANGED <<threadOnly, job, cache, metaLog, nUpdates>>

\* Where a thread goes when FetchMetadata returns: back to the caller, or on
\* in UpdateMetadata, which returns the error of the fetch.
AfterFetch(t, err) ==
    IF tcall[t] = "UpdateMetadata" /\ ~err THEN "um_exec" ELSE "ret"

ReturnOf(err, val, name) ==
    [NoReturn EXCEPT !.err = err, !.val = val, !.name = name]

RetAfterFetch(t, err, val) ==
    IF tcall[t] = "UpdateMetadata" /\ ~err THEN tret[t]
    ELSE ReturnOf(err, val, "nil")

FetchMetadataCall(t) ==
    /\ tpc[t] = "idle"
    /\ tcall' = [tcall EXCEPT ![t] = "FetchMetadata"]
    /\ tpc' = [tpc EXCEPT ![t] = "fm_get"]
    /\ UNCHANGED <<threadOnly, job, cache, tjob, targ, tret, metaLog,
                   nUpdates>>

\* if cached := r.cache.Get(cachekey, nil); cached != nil
FetchMetadataGet(t) ==
    /\ tpc[t] = "fm_get"
    /\ LET k == MetaKey(tjob[t].ID) IN
         IF CacheHas(cache, k)
         THEN /\ tjob' = [tjob EXCEPT ![t].MetaData = cache[k]]
              /\ tret' = [tret EXCEPT ![t] = RetAfterFetch(t, FALSE, cache[k])]
              /\ tpc' = [tpc EXCEPT ![t] = AfterFetch(t, FALSE)]
         ELSE /\ tpc' = [tpc EXCEPT ![t] = "fm_query"]
              /\ UNCHANGED <<tjob, tret>>
    /\ UNCHANGED <<threadOnly, job, cache, tcall, targ, metaLog, nUpdates>>

\* SELECT job.meta_data FROM job WHERE job.id = ? ... Scan(&job.RawMetaData)
FetchMetadataQuery(t) ==
    /\ tpc[t] = "fm_query"
    /\ \E dbOk \in BOOLEAN :
         IF dbOk /\ job[tjob[t].ID].present
         THEN /\ tjob' = [tjob EXCEPT ![t].RawMetaData =
                                         job[tjob[t].ID].meta_data]
              /\ tpc' = [tpc EXCEPT ![t] = "fm_put"]
              /\ UNCHANGED tret
         ELSE /\ tret' = [tret EXCEPT ![t] = RetAfterFetch(t, TRUE, NilMap)]
              /\ tpc' = [tpc EXCEPT ![t] = AfterFetch(t, TRUE)]
              /\ UNCHANGED tjob
    /\ UNCHANGED <<threadOnly, job, cache, tcall, targ, metaLog, nUpdates>>

\* len(job.RawMetaData) == 0: return nil, nil; else json.Unmarshal into
\* job.MetaData, r.cache.Put, return job.MetaData.
FetchMetadataPut(t) ==
    /\ tpc[t] = "fm_put"
    /\ LET j == tjob[t] IN
         IF RawLen(j.RawMetaData) = 0
         THEN /\ tret' = [tret EXCEPT ![t] = RetAfterFetch(t, FALSE, NilMap)]
              /\ UNCHANGED <<tjob, cache>>
         ELSE LET m == Unmarshal(j.RawMetaData, j.MetaData) IN
              /\ tjob' = [tjob EXCEPT ![t].MetaData = m]
              /\ cache' = CachePut(cache, MetaKey(j.ID), m)
              /\ tret' = [tret EXCEPT ![t] = RetAfterFetch(t, FALSE, m)]
    /\ tpc' = [tpc EXCEPT ![t] = AfterFetch(t, FALSE)]
    /\ UNCHANGED <<threadOnly, job, tcall, targ, metaLog, nUpdates>>

\* job.MetaData["jobName"], "" when the key is missing or the map is nil.
JobNameOf(m) == IF "jobName" \in DOMAIN m.kv THEN m.kv["jobName"] ELSE ""

FetchJobNameCall(t) ==
    /\ tpc[t] = "idle"
    /\ tcall' = [tcall EXCEPT ![t] = "FetchJobName"]
    /\ tpc' = [tpc EXCEPT ![t] = "fn_get"]
    /\ UNCHANGED <<threadOnly, job, cache, tjob, targ, tret, metaLog,
                   nUpdates>>

\* A cached map is taken over; the call returns only if it has a jobName.
FetchJobNameGet(t) ==
    /\ tpc[t] = "fn_get"
    /\ LET k == MetaKey(tjob[t].ID) IN
         IF CacheHas(cache, k)
         THEN /\ tjob' = [tjob EXCEPT ![t].MetaData = cache[k]]
              /\ IF JobNameOf(cache[k]) # ""
                 THEN /\ tret' = [tret EXCEPT ![t] =
                              ReturnOf(FALSE, NilMap, JobNameOf(cache[k]))]
                      /\ tpc' = [tpc EXCEPT ![t] = "ret"]
                 ELSE /\ tpc' = [tpc EXCEPT ![t] = "fn_query"]
                      /\ UNCHANGED tret
         ELSE /\ tpc' = [tpc EXCEPT ![t] = "fn_query"]
              /\ UNCHANGED <<tjob, tret>>
    /\ UNCHANGED <<threadOnly, job, cache, tcall, targ, metaLog, nUpdates>>

FetchJobNameQuery(t) ==
    /\ tpc[t] = "fn_query"
    /\ \E dbOk \in BOOLEAN :
         IF dbOk /\ job[tjob[t].ID].present
         THEN /\ tjob' = [tjob EXCEPT ![t].RawMetaData =
                                         job[tjob[t].ID].meta_data]
              /\ tpc' = [tpc EXCEPT ![t] = "fn_put"]
              /\ UNCHANGED tret
         ELSE /\ tret' = [tret EXCEPT ![t] = ReturnOf(TRUE, NilMap, "nil")]
              /\ tpc' = [tpc EXCEPT ![t] = "ret"]
              /\ UNCHANGED tjob
    /\ UNCHANGED <<threadOnly, job, cache, tcall, targ, metaLog, nUpdates>>

FetchJobNamePut(t) ==
    /\ tpc[t] = "fn_put"
    /\ LET j == tjob[t] IN
         IF RawLen(j.RawMetaData) = 0
         THEN /\ tret' = [tret EXCEPT ![t] = ReturnOf(FALSE, NilMap, "nil")]
              /\ UNCHANGED <<tjob, cache>>
         ELSE LET m == Unmarshal(j.RawMetaData, j.MetaData) IN
              /\ tjob' = [tjob EXCEPT ![t].MetaData = m]
              /\ cache' = CachePut(cache, MetaKey(j.ID), m)
              /\ tret' = [tret EXCEPT ![t] =
                             ReturnOf(FALSE, NilMap, JobNameOf(m))]
    /\ tpc' = [tpc EXCEPT ![t] = "ret"]
    /\ UNCHANGED <<threadOnly, job, tcall, targ, metaLog, nUpdates>>

\* The map UpdateMetadata persists: a copy of job.MetaData with key set, or
\* map[string]string{key: val} when job.MetaData is nil.
MergedCopy(m, key, val) ==
    MkMap([k \in DOMAIN m.kv \cup {key} |-> IF k = key THEN val ELSE m.kv[k]])

\* UpdateMetadata loads the metadata only when the job carries none.
NeedsFetch(j) == j.MetaData.nil

\* r.cache.Del(cachekey); if job.MetaData == nil { r.FetchMetadata(job) }
UpdateMetadataCall(t, key, val) ==
    /\ tpc[t] = "idle"
    /\ nUpdates < MaxUpdates
    /\ nUpdates' = nUpdates + 1
    /\ tcall' = [tcall EXCEPT ![t] = "UpdateMetadata"]
    /\ targ' = [targ EXCEPT ![t] = [NoArgs EXCEPT !.key = key, !.val = val]]
    /\ cache' = CacheDel(cache, MetaKey(tjob[t].ID))
    /\ tpc' = [tpc EXCEPT ![t] = IF NeedsFetch(tjob[t]) THEN "fm_get"
                                  ELSE "um_exec"]
    /\ UNCHANGED <<threadOnly, job, tjob, tret, metaLog>>

\* UPDATE job SET meta_data = ? WHERE job.id = ?
UpdateMetaData(tbl, id, raw) ==
    [tbl EXCEPT ![id] = IF @.present THEN [@ EXCEPT !.meta_data = raw] ELSE @]

\* The copy, json.Marshal and the UPDATE statement.
UpdateMetadataExec(t) ==
    /\ tpc[t] = "um_exec"
    /\ LET m == MergedCopy(tjob[t].MetaData, targ[t].key, targ[t].val)
           raw == Marshal(m)
           id == tjob[t].ID
       IN /\ tjob' = [tjob EXCEPT ![t].MetaData = m, ![t].RawMetaData = raw]
          /\ \E dbOk \in BOOLEAN :
               IF dbOk
               THEN /\ job' = UpdateMetaData(job, id, raw)
                    /\ metaLog' = [metaLog EXCEPT ![id] =
                           [k \in DOMAIN @ \cup {targ[t].key} |->
                               IF k = targ[t].key THEN targ[t].val ELSE @[k]]]
                    /\ tpc' = [tpc EXCEPT ![t] = "um_put"]
                    /\ UNCHANGED tret
               ELSE /\ tret' = [tret EXCEPT ![t] =
                                   ReturnOf(TRUE, NilMap, "nil")]
                    /\ tpc' = [tpc EXCEPT ![t] = "ret"]
                    /\ UNCHANGED <<job, metaLog>>
    /\ UNCHANGED <<threadOnly, cache, tcall, targ, nUpdates>>

\* r.cache.Put(cachekey, job.MetaData, ...); return nil
UpdateMetadataPut(t) ==
    /\ tpc[t] = "um_put"
    /\ cache' = CachePut(cache, MetaKey(tjob[t].ID), tjob[t].MetaData)
    /\ tret' = [tret EXCEPT ![t] = ReturnOf(FALSE, NilMap, "nil")]
    /\ tpc' = [tpc EXCEPT ![t] = "ret"]
    /\ UNCHANGED <<threadOnly, job, tjob, tcall, targ, metaLog, nUpdates>>

\* The job row holds no metadata or the metadata Start stored.
InitMeta ==
    /\ InitCommon
    /\ \E raw \in {EmptyRaw, NullRaw,
                     Marshal(MkMap([k \in {"jobName"} |-> "x"]))} :
         job = [i \in JobIds |-> Row("c1", "p1", 1, raw)]

NextMeta ==
    \/ \E t \in Threads, id \in MetaIds : LoadJob(t, id)
    \/ \E id \in MetaIds : CacheExpire(MetaKey(id))
    \/ \E t \in Threads : Return(t)
    \/ \E t \in Threads : FetchMetadataCall(t)
    \/ \E t \in Threads : FetchMetadataGet(t)
    \/ \E t \in Threads : FetchMetadataQuery(t)
    \/ \E t \in Threads : FetchMetadataPut(t)
    \/ \E t \in Threads : FetchJobNameCall(t)
    \/ \E t \in Threads : FetchJobNameGet(t)
    \/ \E t \in Threads : FetchJobNameQuery(t)
    \/ \E t \in Threads : FetchJobNamePut(t)
    \/ \E t \in Threads, a \in UpdateArgs : UpdateMetadataCall(t, a[1], a[2])
    \/ \E t \in Threads : UpdateMetadataExec(t)
    \/ \E t \in Threads : UpdateMetadataPut(t)

SpecMeta == InitMeta /\ [][NextMeta]_vars

\* The same calls made one after the other: a call starts when no other
\* call is running.
NextMetaSeq ==
    /\ NextMeta
    /\ Cardinality({t \in Threads : tpc'[t] # "idle"}) <= 1

SpecMetaSeq == InitMeta /\ [][NextMetaSeq]_vars

(***************************************************************************)
(* Properties of the metadata accessors.                                   *)
(***************************************************************************)
\* The metadata the store holds for a job, decoded into a fresh map.
Stored(id) ==
    IF RawLen(job[id].meta_data) = 0 THEN NilMap
    ELSE Unmarshal(job[id].meta_data, NilMap)

\* Map m holds the last value written for every key UpdateMetadata has set.
HasAllWritten(m, id) ==
    \A k \in DOMAIN metaLog[id] :
        k \in DOMAIN m.kv /\ m.kv[k] = metaLog[id][k]

\* C8: after any sequence of successful UpdateMetadata calls on a job id,
\* whatever Job object each call was given, a later FetchMetadata of that job
\* returns a map that holds the last value written for every key ever set.
C8_NoKeyLost ==
    \A t \in Threads :
        (tpc[t] = "ret" /\ tcall[t] = "FetchMetadata" /\ ~tret[t].err) =>
            HasAllWritten(tret[t].val, tjob[t].ID)

\* C9: once all FetchMetadata, FetchJobName and UpdateMetadata calls on a
\* job id have returned, the cache entry metadata:<id> is absent or equal to
\* the metadata the store holds.
C9_CacheNotStale ==
    (\A t \in Threads : tpc[t] = "idle") =>
        \A id \in MetaIds :
            CacheHas(cache, MetaKey(id)) => cache[MetaKey(id)] = Stored(id)

\* C11: concurrent calls that miss the same cache key run the computation of
\* the value once: no two FetchMetadata calls on one job id have both run
\* the SELECT of the metadata and are both about to decode and cache it.
C11_ComputeOnce ==
    \A id \in MetaIds :
        Cardinality({t \in Threads :
                        /\ tcall[t] = "FetchMetadata"
                        /\ tpc[t] = "fm_put"
                        /\ tjob[t].ID = id}) <= 1

(***************************************************************************)
(* Start, the delete operations and Partitions.                            *)
(***************************************************************************)
partOnly == <<jobRepoOnce, numWorkers, archiveChannel, archivePending, wpc,
              wjob, wstats, trepo, tarchive, hist, waitFor, metaLog, nUpdates,
              tjob>>

Present(tbl) == {i \in JobIds : tbl[i].present}

\* The id INTEGER PRIMARY KEY of a new row: one more than the largest id.
NextId(tbl) ==
    IF Present(tbl) = {} THEN 1
    ELSE 1 + CHOOSE i \in Present(tbl) : \A j \in Present(tbl) : j <= i

\* Start: INSERT INTO job (...) VALUES (...); return res.LastInsertId()
Start(t, cl, part, start) ==
    /\ tpc[t] = "idle"
    /\ NextId(job) \in JobIds
    /\ tcall' = [tcall EXCEPT ![t] = "Start"]
    /\ \E dbOk \in BOOLEAN :
         IF dbOk
         THEN /\ job' = [job EXCEPT ![NextId(job)] =
                            Row(cl, part, start, Marshal(NilMap))]
              /\ tret' = [tret EXCEPT ![t] =
                             [NoReturn EXCEPT !.count = NextId(job)]]
         ELSE /\ tret' = [tret EXCEPT ![t] =
                             [NoReturn EXCEPT !.err = TRUE, !.count = -1]]
              /\ UNCHANGED job
    /\ tpc' = [tpc EXCEPT ![t] = "ret"]
    /\ UNCHANGED <<partOnly, cache, targ, computing, lru, lastOp, usertbl, fcall, scall, qlog, now, rcall, derived, heap, returned, initdb>>

\* DELETE FROM job WHERE job.id = ?
DeleteJobById(t, id) ==
    /\ tpc[t] = "idle"
    /\ tcall' = [tcall EXCEPT ![t] = "DeleteJobById"]
    /\ \E dbOk \in BOOLEAN :
         IF dbOk
         THEN /\ job' = [job EXCEPT ![id] = NoRow]
              /\ tret' = [tret EXCEPT ![t] = NoReturn]
         ELSE /\ tret' = [tret EXCEPT ![t] = [NoReturn EXCEPT !.err = TRUE]]
              /\ UNCHANGED job
    /\ tpc' = [tpc EXCEPT ![t] = "ret"]
    /\ UNCHANGED <<partOnly, cache, targ, computing, lru, lastOp, usertbl, fcall, scall, qlog, now, rcall, derived, heap, returned, initdb>>

\* WHERE job.start_time < startTime, in the count and in the DELETE; a
\* variant that takes the rows at the cutoff too.
StartsBeforeOrAt(row, startTime) == row.start_time <= startTime

StartsBefore(row, startTime) == row.start_time < startTime

\* SELECT count(*) FROM job WHERE job.start_time < startTime; err holds the
\* error of this statement until the one of the DELETE overwrites it.
DeleteJobsBeforeCount(t, startTime) ==
    /\ tpc[t] = "idle"
    /\ tcall' = [tcall EXCEPT ![t] = "DeleteJobsBefore"]
    /\ targ' = [targ EXCEPT ![t] = [NoArgs EXCEPT !.start = startTime]]
    /\ \E dbOk \in BOOLEAN :
         tret' = [tret EXCEPT ![t] =
            [NoReturn EXCEPT
                !.err = ~dbOk,
                !.count =
                    IF dbOk
                    THEN Cardinality({i \in Present(job) :
                                         StartsBefore(job[i], startTime)})
                    ELSE 0]]
    /\ tpc' = [tpc EXCEPT ![t] = "dj_delete"]
    /\ UNCHANGED <<partOnly, job, cache, computing, lru, lastOp, usertbl, fcall, scall, qlog, now, rcall, derived, heap, returned, initdb>>

\* DELETE FROM job WHERE job.start_time < ?; return cnt, err
DeleteJobsBeforeDelete(t) ==
    /\ tpc[t] = "dj_delete"
    /\ \E dbOk \in BOOLEAN :
         IF dbOk
         THEN /\ job' = [i \in JobIds |->
                            IF job[i].present
                               /\ StartsBefore(job[i], targ[t].start)
                            THEN NoRow ELSE job[i]]
              /\ tret' = [tret EXCEPT ![t].err = FALSE]
         ELSE /\ tret' = [tret EXCEPT ![t].err = TRUE]
              /\ UNCHANGED job
    /\ tpc' = [tpc EXCEPT ![t] = "ret"]
    /\ UNCHANGED <<partOnly, cache, tcall, targ, computing, lru, lastOp, usertbl, fcall, scall, qlog, now, rcall, derived, heap, returned, initdb>>

\* SELECT DISTINCT job.partition FROM job WHERE job.cluster = ?
\* The rows of the result, without their order.
SelectAllPartitions(tbl, cl) == {tbl[i].partition : i \in Present(tbl)}
SelectDistinctPartitions(tbl, cl) ==
    {tbl[i].partition : i \in {j \in Present(tbl) : tbl[j].cluster = cl}}

\* Partitions: r.cache.Get("partitions:"+cluster, compute).  A resident
\* entry is returned; if none is resident the caller computes the value,
\* unless another caller is computing it, whose result it then waits for.
PartitionsGet(t, cl) ==
    /\ tpc[t] = "idle"
    /\ PartKey(cl) \notin computing
    /\ tcall' = [tcall EXCEPT ![t] = "Partitions"]
    /\ targ' = [targ EXCEPT ![t] = [NoArgs EXCEPT !.cluster = cl]]
    /\ IF CacheHas(cache, PartKey(cl))
       THEN /\ tret' = [tret EXCEPT ![t] =
                  [NoReturn EXCEPT !.parts = cache[PartKey(cl)], !.hit = TRUE]]
            /\ tpc' = [tpc EXCEPT ![t] = "ret"]
            /\ UNCHANGED computing
       ELSE /\ computing' = computing \cup {PartKey(cl)}
            /\ tpc' = [tpc EXCEPT ![t] = "pt_compute"]
            /\ UNCHANGED tret
    /\ UNCHANGED <<partOnly, job, cache, lru, lastOp, usertbl, fcall, scall, qlog, now, rcall, derived, heap, returned, initdb>>

\* The compute closure: on an error of the query nothing stays cached (the
\* entry gets a TTL of 0) and Partitions returns nil and the error; else
\* the list is cached for an hour and returned.
PartitionsCompute(t) ==
    /\ tpc[t] = "pt_compute"
    /\ LET cl == targ[t].cluster IN
       \E dbOk \in BOOLEAN :
         IF dbOk
         THEN LET parts == SelectDistinctPartitions(job, cl) IN
              /\ cache' = CachePut(cache, PartKey(cl), parts)
              /\ tret' = [tret EXCEPT ![t] = [NoReturn EXCEPT !.parts = parts]]
         ELSE /\ tret' = [tret EXCEPT ![t] = [NoReturn EXCEPT !.err = TRUE]]
              /\ UNCHANGED cache
    /\ computing' = computing \ {PartKey(targ[t].cluster)}
    /\ tpc' = [tpc EXCEPT ![t] = "ret"]
    /\ UNCHANGED <<partOnly, job, tcall, targ, lru, lastOp, usertbl, fcall, scall, qlog, now, rcall, derived, heap, returned, initdb>>

\* The caller has the results of its call.
ReturnPart(t) ==
    /\ tpc[t] = "ret"
    /\ tpc' = [tpc EXCEPT ![t] = "idle"]
    /\ tcall' = [tcall EXCEPT ![t] = "none"]
    /\ targ' = [targ EXCEPT ![t] = NoArgs]
    /\ tret' = [tret EXCEPT ![t] = NoReturn]
    /\ UNCHANGED <<partOnly, job, cache, computing, lru, lastOp, usertbl, fcall, scall, qlog, now, rcall, derived, heap, returned, initdb>>

\* The result cache drops a partition list: its TTL of one hour has run out
\* or it was evicted.
PartitionsExpire(cl) ==
    /\ CacheHas(cache, PartKey(cl))
    /\ cache' = CacheDel(cache, PartKey(cl))
    /\ UNCHANGED <<partOnly, job, tpc, tcall, targ, tret, computing, lru, lastOp, usertbl, fcall, scall, qlog, now, rcall, derived, heap, returned, initdb>>

\* The job table is empty.
InitPart ==
    /\ InitCommon
    /\ job = [i \in JobIds |-> NoRow]

NextPart ==
    \/ \E t \in Threads, cl \in Clusters, part \in Partitions, st \in Times :
          Start(t, cl, part, st)
    \/ \E t \in Threads, id \in JobIds : DeleteJobById(t, id)
    \/ \E t \in Threads, st \in Times : DeleteJobsBeforeCount(t, st + 1)
    \/ \E t \in Threads : DeleteJobsBeforeDelete(t)
    \/ \E t \in Threads, cl \in Clusters : PartitionsGet(t, cl)
    \/ \E t \in Threads : PartitionsCompute(t)
    \/ \E t \in Threads : ReturnPart(t)
    \/ \E cl \in Clusters : PartitionsExpire(cl)

\* The calls made one after the other.
NextPartSeq ==
    /\ NextPart
    /\ Cardinality({t \in Threads : tpc'[t] # "idle"}) <= 1

SpecPartSeq == InitPart /\ [][NextPartSeq]_vars

(***************************************************************************)
(* Properties of the cached partition lists.                               *)
(***************************************************************************)
\* The partitions the job table holds for a cluster.
TableParts(cl) ==
    {p \in Partitions :
        \E i \in JobIds :
            job[i].present /\ job[i].cluster = cl /\ job[i].partition = p}

PartitionsReturned(t) ==
    tpc[t] = "ret" /\ tcall[t] = "Partitions" /\ ~tret[t].err

\* C10 as stated: after a write to the job table the next Partitions call
\* returns the list that matches the job table.
C10_PartitionsMatchTable ==
    \A t \in Threads :
        PartitionsReturned(t) => tret[t].parts = TableParts(targ[t].cluster)

\* C10 amended: Start, DeleteJobsBefore and DeleteJobById leave the cached
\* list alone; a Partitions call that finds a list of the cluster resident
\* returns that list as it is, and only a call that finds none resident
\* returns the list that matches the job table, which it caches.
C10_CachedListUntilExpiry ==
    [][\A t \in Threads :
        /\ (tpc[t] # "ret" /\ tpc'[t] = "ret" /\ tcall'[t] = "Partitions"
               /\ ~tret'[t].err) =>
              LET k == PartKey(targ'[t].cluster) IN
              IF tret'[t].hit
              THEN /\ CacheHas(cache, k)
                   /\ tret'[t].parts = cache[k]
                   /\ cache' = cache
              ELSE /\ ~CacheHas(cache, k)
                   /\ tret'[t].parts =
                        {q \in Partitions :
                            \E i \in JobIds :
                                /\ job'[i].present
                                /\ job'[i].cluster = targ'[t].cluster
                                /\ job'[i].partition = q}
                   /\ CacheHas(cache', k)
                   /\ cache'[k] = tret'[t].parts
        /\ (tpc[t] # tpc'[t]
               /\ tcall'[t] \in {"Start", "DeleteJobById", "DeleteJobsBefore"})
              => cache' = cache
    ]_vars

\* Partitions has returned a cached list that the table no longer matches,
\* and the other cluster's list was computed from its own rows.
C10_Witness ==
    \E t \in Threads :
        /\ PartitionsReturned(t)
        /\ tret[t].hit
        /\ tret[t].parts # TableParts(targ[t].cluster)
        /\ \E cl \in Clusters :
              /\ cl # targ[t].cluster
              /\ TableParts(cl) # {}
              /\ TableParts(cl) # TableParts(targ[t].cluster)

(***************************************************************************)
(* The result cache with its cost accounting (pkg/lrucache), under the     *)
(* operations the repository makes on it.  lru holds the resident entries, *)
(* most recently used first; cache holds the values a lookup can return.   *)
(***************************************************************************)
\* lrucache.New(1024 * 1024): the capacity, scaled so that eviction happens
\* with the small blobs of the model.
CacheMaxMemory == 6
\* The cost the closure of Partitions returns with a failed query is 1000
\* (with a TTL of 0), scaled with the capacity.
PartitionsErrCost == 5
\* The cost of a partition list.
PartitionsCost == 1

CacheKeys == {MetaKey(id) : id \in JobIds} \cup {PartKey(cl) : cl \in Clusters}
\* The maps the accessors cache, with blobs of 2, 3 and 4 bytes.
CachedMaps ==
    {MkMap(EmptyKV), MkMap([k \in {"jobName"} |-> "x"]),
     MkMap([k \in Keys |-> "x"])}

LruKeys(l) == {l[i].key : i \in 1..Len(l)}

RECURSIVE TotalCost(_)
TotalCost(l) == IF l = <<>> THEN 0 ELSE Head(l).size + TotalCost(Tail(l))

LruRemove(l, k) == SelectSeq(l, LAMBDA e : e.key # k)

\* Eviction: entries are dropped from the least recently used end until the
\* total cost is within the capacity.
RECURSIVE EvictMostRecentFirst(_, _)
EvictMostRecentFirst(l, cap) ==
    IF l = <<>> \/ TotalCost(l) <= cap THEN l
    ELSE IF Len(l) = 1 THEN <<>>
    ELSE EvictMostRecentFirst(<<Head(l)>> \o Tail(Tail(l)), cap)
RECURSIVE EvictLeastRecentFirst(_, _)
EvictLeastRecentFirst(l, cap) ==
    IF l = <<>> \/ TotalCost(l) <= cap THEN l
    ELSE EvictLeastRecentFirst(SubSeq(l, 1, Len(l) - 1), cap)

\* Insert or replace: the entry becomes the most recently used one.
LruInsert(l, k, size, expired) ==
    EvictLeastRecentFirst(
        <<[key |-> k, size |-> size, expired |-> expired]>> \o LruRemove(l, k),
        CacheMaxMemory)

\* A hit makes the entry the most recently used one.
LruTouch(l, k) ==
    LET e == CHOOSE x \in {l[i] : i \in 1..Len(l)} : x.key = k
    IN <<e>> \o LruRemove(l, k)

\* The values of the entries that are resident and not expired.
Visible(c, l) ==
    [k \in {x \in DOMAIN c : \E i \in 1..Len(l) :
                                  l[i].key = x /\ ~l[i].expired} |-> c[k]]

cacheOnly == <<jobRepoOnce, numWorkers, job, archiveChannel, archivePending,
               wpc, wjob, wstats, trepo, tpc, tjob, tarchive, tcall, targ,
               tret, hist, waitFor, metaLog, nUpdates, computing, usertbl,
               fcall, scall, qlog, now, rcall, derived, heap, returned, initdb>>

\* r.cache.Put(cachekey, job.MetaData, len(job.RawMetaData), 24*time.Hour)
CachePutMetadata(id, m) ==
    /\ lru' = LruInsert(lru, MetaKey(id), RawLen(Marshal(m)), FALSE)
    /\ cache' = Visible(CachePut(cache, MetaKey(id), m), lru')
    /\ lastOp' = [op |-> "put", key |-> MetaKey(id),
                  evicted |-> LruKeys(lru) \ LruKeys(lru')]
    /\ UNCHANGED cacheOnly

\* r.cache.Get(cachekey, nil): an entry past its expiry is dropped and
\* treated as absent.
CacheGetMetadata(id) ==
    /\ MetaKey(id) \in LruKeys(lru)
    /\ IF CacheHas(cache, MetaKey(id))
       THEN lru' = LruTouch(lru, MetaKey(id))
       ELSE lru' = LruRemove(lru, MetaKey(id))
    /\ lastOp' = [op |-> "get", key |-> MetaKey(id), evicted |-> {}]
    /\ UNCHANGED <<cacheOnly, cache>>

\* r.cache.Del(cachekey)
CacheDelMetadata(id) ==
    /\ MetaKey(id) \in LruKeys(lru)
    /\ lru' = LruRemove(lru, MetaKey(id))
    /\ cache' = CacheDel(cache, MetaKey(id))
    /\ lastOp' = [op |-> "del", key |-> MetaKey(id), evicted |-> {}]
    /\ UNCHANGED cacheOnly

\* r.cache.Get("partitions:"+cluster, compute): a hit, or the closure runs
\* and returns (parts, 1 * time.Hour, 1), or (nil, 0, 1000) when the query
\* fails.
CacheGetPartitions(cl, dbOk, parts) ==
    /\ IF CacheHas(cache, PartKey(cl))
       THEN /\ lru' = LruTouch(lru, PartKey(cl))
            /\ lastOp' = [op |-> "get", key |-> PartKey(cl), evicted |-> {}]
            /\ UNCHANGED cache
       ELSE /\ lru' = LruInsert(lru, PartKey(cl),
                                IF dbOk THEN PartitionsCost
                                ELSE PartitionsErrCost, ~dbOk)
            /\ cache' = Visible(CachePut(cache, PartKey(cl), parts), lru')
            /\ lastOp' = [op |-> "compute", key |-> PartKey(cl),
                          evicted |-> LruKeys(lru) \ LruKeys(lru')]
    /\ UNCHANGED cacheOnly

\* The TTL of an entry runs out: it stays resident until it is looked up
\* or evicted.
CacheTtlElapses(k) ==
    /\ CacheHas(cache, k)
    /\ lru' = [i \in 1..Len(lru) |->
                 IF lru[i].key = k THEN [lru[i] EXCEPT !.expired = TRUE]
                 ELSE lru[i]]
    /\ cache' = CacheDel(cache, k)
    /\ lastOp' = [op |-> "ttl", key |-> k, evicted |-> {}]
    /\ UNCHANGED cacheOnly

InitCache ==
    /\ InitCommon
    /\ job = [i \in JobIds |-> NoRow]

NextCache ==
    \/ \E id \in JobIds, m \in CachedMaps : CachePutMetadata(id, m)
    \/ \E id \in JobIds : CacheGetMetadata(id)
    \/ \E id \in JobIds : CacheDelMetadata(id)
    \/ \E cl \in Clusters, dbOk \in BOOLEAN :
          CacheGetPartitions(cl, dbOk, {"p1"})
    \/ \E k \in CacheKeys : CacheTtlElapses(k)

SpecCache == InitCache /\ [][NextCache]_vars

\* Position of key k in the recency order, 1 the most recently used.
Rank(l, k) == CHOOSE i \in 1..Len(l) : l[i].key = k

\* C12: after every put, get_or_compute and delete on the result cache the
\* total cost of the resident entries is within the capacity; the entries
\* an insert evicts are less recently used than every entry it keeps, and
\* it evicts no more than the new entry needs.
C12_CostWithinCapacity ==
    [][/\ TotalCost(lru') <= CacheMaxMemory
       /\ lastOp'.op \in {"put", "compute"} =>
             LET k == lastOp'.key
                 old == LruRemove(lru, k)
                 evicted == LruKeys(old) \ LruKeys(lru')
                 kept == LruKeys(old) \cap LruKeys(lru')
             IN /\ k \in LruKeys(lru') /\ Head(lru').key = k
                /\ \A e \in evicted, s \in kept : Rank(old, s) < Rank(old, e)
                /\ \A s1, s2 \in kept :
                      Rank(old, s1) < Rank(old, s2) <=>
                          Rank(lru', s1) < Rank(lru', s2)
                /\ \A e \in evicted :
                      (\A x \in evicted : Rank(old, e) <= Rank(old, x)) =>
                          TotalCost(lru') + old[Rank(old, e)].size
                              > CacheMaxMemory
    ]_vars

\* An insert has evicted the least recently used entry and kept a more
\* recently used one.
C12_Witness ==
    /\ lastOp.op = "put"
    /\ lastOp.evicted # {}
    /\ Len(lru) >= 2
    /\ \E i \in 1..Len(lru) : lru[i].expired

(***************************************************************************)
(* Lookups: FindColumnValue, FindColumnValues, FindUserOrProjectOrJobname. *)
(* Strings the lookups compare are sequences of characters.  A lookup is   *)
(* a function of the caller, its arguments and the tables; its outcomes    *)
(* are a set, since a failing statement and the row QueryRow picks among   *)
(* several are not determined by the arguments.                            *)
(***************************************************************************)
Digits == {"0", "1", "2", "3", "4", "5", "6", "7", "8", "9"}

\* strconv.Atoi(searchterm) succeeds: an optional sign and decimal digits.
IsInteger(term) ==
    LET body == IF term # <<>> /\ Head(term) \in {"+", "-"}
                THEN Tail(term) ELSE term
    IN body # <<>> /\ \A i \in 1..Len(body) : body[i] \in Digits

\* LIKE compares letters without regard to case.
Fold(c) == IF c = "N" THEN "n" ELSE c

\* text LIKE '%' || term || '%', where _ in term stands for any character.
Like(text, term) ==
    \E off \in 0..(Len(text) - Len(term)) :
        \A i \in 1..Len(term) :
            term[i] = "_" \/ Fold(text[off + i]) = Fold(term[i])

\* The characters of the strings that occur in stored blobs and of the
\* cluster names.
CharsOf ==
    [jobName |-> <<"j", "o", "b", "N", "a", "m", "e">>,
     note |-> <<"n", "o", "t", "e">>, x |-> <<"x">>, y |-> <<"y">>,
     c1 |-> <<"c", "1">>, c2 |-> <<"c", "2">>]

Quoted(str) == <<"\"">> \o CharsOf[str] \o <<"\"">>

RECURSIVE PairsText(_)
PairsText(pairs) ==
    IF pairs = <<>> THEN <<>>
    ELSE Quoted(Head(pairs)[1]) \o <<":">> \o Quoted(Head(pairs)[2])
         \o (IF Len(pairs) > 1 THEN <<",">> ELSE <<>>)
         \o PairsText(Tail(pairs))

\* The text of the meta_data column.
RawText(raw) ==
    CASE raw.kind = "empty" -> <<>>
      [] raw.kind = "null" -> <<"n", "u", "l", "l">>
      [] OTHER -> <<"{">> \o PairsText(raw.pairs) \o <<"}">>

\* The roles that may use the lookups.
ElevatedRolesAndUser == {"admin", "support", "manager", "user"}
ElevatedRoles == {"admin", "support", "manager"}

\* user.HasAnyRole(roles)
HasAnyRole(user, roles) == user.roles \cap roles # {}

Rows(tbl) == {tbl[i] : i \in {j \in DOMAIN tbl : tbl[j].present}}

\* SELECT DISTINCT table.selectColumn FROM table
\*   WHERE table.whereColumn = ? (or LIKE ?)
SelectDistinct(tbl, utbl, table, selectColumn, whereColumn, isLike, term) ==
    LET rows == IF table = "job" THEN Rows(tbl) ELSE utbl
        col(r, c) == IF c = "meta_data" THEN RawText(r.meta_data)
                     ELSE IF c = "cluster" THEN CharsOf[r.cluster]
                     ELSE r[c]
    IN {col(r, selectColumn) :
          r \in {x \in rows : IF isLike THEN Like(col(x, whereColumn), term)
                               ELSE col(x, whereColumn) = term}}

Outcome(result, err, queries) ==
    [result |-> result, err |-> err, queries |-> queries]

\* FindColumnValue: the possible (result, err), with the statements issued:
\* (table, where column, "hit" / "none" for no row / "db" for a failure).
FindColumnValue(tbl, utbl, user, searchterm, table, selectColumn, whereColumn, isLike) ==
    IF HasAnyRole(user, ElevatedRoles)
    THEN LET vals == SelectDistinct(tbl, utbl, table, selectColumn,
                                    whereColumn, isLike, searchterm)
             q(st) == <<(<<table, whereColumn, st>>)>>
         IN {Outcome(<<>>, "db", q("db"))}
            \cup (IF vals = {} THEN {Outcome(<<>>, "ErrNotFound", q("none"))}
                  ELSE {Outcome(v, "nil", q("hit")) : v \in vals})
    ELSE {Outcome(<<>>, "ErrForbidden", <<>>)}

\* FindColumnValues: the possible (results, err); results without their
\* order.
FindColumnValues(tbl, utbl, user, query, table, selectColumn, whereColumn) ==
    IF HasAnyRole(user, ElevatedRoles)
    THEN LET vals == SelectDistinct(tbl, utbl, table, selectColumn,
                                    whereColumn, TRUE, query)
             q(st) == <<(<<table, whereColumn, st>>)>>
         IN {Outcome({}, "db", q("db")),
             Outcome(vals, "nil", q(IF vals = {} THEN "none" ELSE "hit"))}
    ELSE {Outcome({}, "ErrForbidden", <<>>)}

Found(username, project, metasnip, err, queries) ==
    [username |-> username, project |-> project, metasnip |-> metasnip,
     err |-> err, queries |-> queries]

\* The last step of FindUserOrProjectOrJobname, after the queries qs:
\* SELECT DISTINCT job.cluster FROM job WHERE job.meta_data LIKE ?
FindJobnameStep(tbl, utbl, searchterm, qs) ==
    LET vals == SelectDistinct(tbl, utbl, "job", "cluster", "meta_data",
                               TRUE, searchterm)
        q(st) == qs \o <<(<<"job", "meta_data", st>>)>>
    IN {Found(<<>>, <<>>, <<>>, "db", q("db"))}
       \cup (IF vals = {}
             THEN {Found(<<>>, <<>>, <<>>, "ErrNotFound", q("none"))}
             ELSE {Found(<<>>, <<>>, SubSeq(v, 1, 1), "nil", q("hit")) :
                      v \in vals})

\* uresult != "": the lookup has found a value.
IsHitNever(result) == FALSE
IsHit(result) == result # <<>>

\* FindUserOrProjectOrJobname: the possible returns.
FindUserOrProjectOrJobname(tbl, utbl, user, searchterm) ==
    IF IsInteger(searchterm) THEN {Found(<<>>, <<>>, <<>>, "nil", <<>>)}
    ELSE IF ~user.present THEN {Found(<<>>, <<>>, <<>>, "ErrNotFound", <<>>)}
    ELSE UNION {
      IF IsHit(u.result) THEN {Found(u.result, <<>>, <<>>, "nil", u.queries)}
      ELSE UNION {
        IF IsHit(n.result)
        THEN {Found(n.result, <<>>, <<>>, "nil", u.queries \o n.queries)}
        ELSE UNION {
          IF IsHit(pr.result)
          THEN {Found(<<>>, pr.result, <<>>, "nil",
                      u.queries \o n.queries \o pr.queries)}
          ELSE FindJobnameStep(tbl, utbl, searchterm,
                               u.queries \o n.queries \o pr.queries)
          : pr \in FindColumnValue(tbl, utbl, user, searchterm, "job",
                                   "project", "project", FALSE)}
        : n \in FindColumnValue(tbl, utbl, user, searchterm, "user",
                                "username", "name", TRUE)}
      : u \in FindColumnValue(tbl, utbl, user, searchterm, "job", "user",
                              "user", FALSE)}

\* Callers, search terms and the (table, select column, where column)
\* triples the repository passes.
Callers ==
    {[name |-> <<"a", "n">>, roles |-> rs, present |-> TRUE] :
        rs \in {{}, {"user"}, {"api"}, {"admin"}, {"support", "user"},
                {"manager"}}}
NoUser == [name |-> <<>>, roles |-> {}, present |-> FALSE]
Terms ==
    {<<>>, <<"a", "n">>, <<"b", "o">>, <<"o">>, <<"p", "b">>, <<"x">>,
     <<"_">>, <<"z">>, <<"7">>, <<"-", "7">>, <<"-">>}
Lookups ==
    {<<"job", "user", "user">>, <<"user", "username", "name">>,
     <<"job", "project", "project">>, <<"user", "name", "username">>}
UserRows ==
    {[username |-> <<"a", "n">>, name |-> <<"a", "n", "n">>],
     [username |-> <<"b", "o">>, name |-> <<"b", "o", "b">>]}

\* Rows of the job table the lookups run on.
FindRow(u, pr, cl, raw) ==
    [Row(cl, "p1", 1, raw) EXCEPT !.user = u, !.project = pr]
FindRows ==
    {NoRow,
     FindRow(<<"a", "n">>, <<"p", "a">>, "c1", EmptyRaw),
     FindRow(<<"a", "n">>, <<"p", "a">>, "c1",
             Marshal(MkMap([k \in {"jobName"} |-> "x"]))),
     FindRow(<<"b", "o">>, <<"p", "b">>, "c1",
             Marshal(MkMap([k \in {"jobName"} |-> "x"]))),
     FindRow(<<"b", "o">>, <<"p", "b">>, "c2",
             Marshal(MkMap([k \in {"note"} |-> "y"])))}
FindStores == [JobIds -> FindRows]

findOnly == <<jobRepoOnce, numWorkers, job, cache, archiveChannel,
              archivePending, wpc, wjob, wstats, trepo, tpc, tjob, tarchive,
              tcall, targ, tret, hist, waitFor, metaLog, nUpdates, computing,
              lru, lastOp, usertbl, scall, qlog, now, rcall, derived, heap, returned, initdb>>

FindColumnValueCall(user, term, lk, isLike) ==
    /\ fcall = NoLookup
    /\ \E o \in FindColumnValue(job, usertbl, user, term, lk[1], lk[2],
                                 lk[3], isLike) :
         fcall' = [op |-> "FindColumnValue", user |-> user, term |-> term,
                   out |-> o]
    /\ UNCHANGED findOnly

FindColumnValuesCall(user, term, lk) ==
    /\ fcall = NoLookup
    /\ \E o \in FindColumnValues(job, usertbl, user, term, lk[1], lk[2],
                                  lk[3]) :
         fcall' = [op |-> "FindColumnValues", user |-> user, term |-> term,
                   out |-> o]
    /\ UNCHANGED findOnly

FindUserOrProjectOrJobnameCall(user, term) ==
    /\ fcall = NoLookup
    /\ \E o \in FindUserOrProjectOrJobname(job, usertbl, user, term) :
         fcall' = [op |-> "FindUserOrProjectOrJobname", user |-> user,
                   term |-> term, out |-> o]
    /\ UNCHANGED findOnly

\* The caller has the results of its lookup.
LookupReturn ==
    /\ fcall # NoLookup
    /\ fcall' = NoLookup
    /\ UNCHANGED findOnly

InitFind ==
    /\ jobRepoOnce = FALSE
    /\ numWorkers = 0
    /\ cache = EmptyCache
    /\ archiveChannel = <<>>
    /\ archivePending = 0
    /\ wpc = [w \in Workers |-> "recv"]
    /\ wjob = [w \in Workers |-> NoEntry]
    /\ wstats = [w \in Workers |-> EmptyKV]
    /\ trepo = [t \in Threads |-> FALSE]
    /\ tpc = [t \in Threads |-> "idle"]
    /\ tjob = [t \in Threads |-> NewJob(1)]
    /\ tarchive = [t \in Threads |-> NoEntry]
    /\ tcall = [t \in Threads |-> "none"]
    /\ targ = [t \in Threads |-> NoArgs]
    /\ tret = [t \in Threads |-> NoReturn]
    /\ hist = <<>>
    /\ waitFor = [t \in Threads |-> {}]
    /\ metaLog = [i \in JobIds |-> EmptyKV]
    /\ nUpdates = 0
    /\ computing = {}
    /\ lru = <<>>
    /\ lastOp = [op |-> "none", key |-> <<>>, evicted |-> {}]
    /\ fcall = NoLookup
    /\ scall = NoStatsCall
    /\ qlog = <<>>
    /\ now = 0
    /\ rcall = NoCall
    /\ derived = [i \in JobIds |-> NotRead]
    /\ heap = <<>>
    /\ returned = {}
    /\ initdb = NoInitDB
    /\ job \in FindStores
    /\ usertbl \in SUBSET UserRows

NextFind ==
    \/ \E user \in Callers, term \in Terms, lk \in Lookups,
          isLike \in BOOLEAN : FindColumnValueCall(user, term, lk, isLike)
    \/ \E user \in Callers, term \in Terms, lk \in Lookups :
          FindColumnValuesCall(user, term, lk)
    \/ \E user \in Callers \cup {NoUser}, term \in Terms :
          FindUserOrProjectOrJobnameCall(user, term)
    \/ LookupReturn

SpecFind == InitFind /\ [][NextFind]_vars

(***************************************************************************)
(* Properties of the lookups.                                              *)
(***************************************************************************)
\* C13: FindColumnValue and FindColumnValues called by a user with none of
\* the roles administrator, support, manager return the forbidden error
\* with an empty result and issue no query, whatever the table, the columns
\* and the search term.
C13_ForbiddenWithoutRole ==
    (/\ fcall.op \in {"FindColumnValue", "FindColumnValues"}
     /\ fcall.user.roles \cap {"admin", "support", "manager"} = {}) =>
        /\ fcall.out.err = "ErrForbidden"
        /\ IF fcall.op = "FindColumnValue" THEN fcall.out.result = <<>>
           ELSE fcall.out.result = {}
        /\ fcall.out.queries = <<>>

\* A user with the role user only was refused a search term that is the
\* user column of a stored job.
C13_Witness ==
    /\ fcall.op = "FindColumnValue"
    /\ fcall.user.roles = {"user"}
    /\ fcall.out.err = "ErrForbidden"
    /\ \E i \in JobIds : job[i].present /\ job[i].user = fcall.term

\* Tables that differ from the stored ones only in rows of other users.
SameOwnRows(user, tbl, utbl) ==
    /\ \A i \in JobIds :
          \/ tbl[i] = job[i]
          \/ /\ ~(job[i].present /\ job[i].user = user.name)
             /\ ~(tbl[i].present /\ tbl[i].user = user.name)
    /\ \A r \in (utbl \ usertbl) \cup (usertbl \ utbl) :
          r.username # user.name

\* C14: for a caller without an elevated role the result of
\* FindUserOrProjectOrJobname does not depend on rows of other users: on
\* tables that differ only in such rows the call has the same returns.
C14_OwnRowsOnly ==
    (/\ fcall.op = "FindUserOrProjectOrJobname"
     /\ fcall.user.present
     /\ fcall.user.roles \cap {"admin", "support", "manager"} = {}) =>
        \A tbl \in FindStores, utbl \in SUBSET UserRows :
            SameOwnRows(fcall.user, tbl, utbl) =>
                FindUserOrProjectOrJobname(tbl, utbl, fcall.user, fcall.term)
                  = FindUserOrProjectOrJobname(job, usertbl, fcall.user,
                                               fcall.term)

\* The lookups FindUserOrProjectOrJobname makes for a caller, in order; a
\* caller without an elevated role is refused the first three.
LookupPlan(user) ==
    IF user.roles \cap {"admin", "support", "manager"} # {}
    THEN <<(<<"job", "user">>), (<<"user", "name">>), (<<"job", "project">>),
           (<<"job", "meta_data">>)>>
    ELSE <<(<<"job", "meta_data">>)>>

\* What a lookup of the plan finds in the tables for a term.
Matches(step, term) ==
    CASE step = <<"job", "user">> ->
           {r.user : r \in {x \in Rows(job) : x.user = term}}
      [] step = <<"user", "name">> ->
           {r.username : r \in {x \in usertbl : Like(x.name, term)}}
      [] step = <<"job", "project">> ->
           {r.project : r \in {x \in Rows(job) : x.project = term}}
      [] OTHER ->
           {<<CharsOf[r.cluster][1]>> :
               r \in {x \in Rows(job) : Like(RawText(x.meta_data), term)}}

\* The lookups of a return were made in the order of the plan, each but
\* the last without a hit, and what each reports is what the tables hold.
InPlanOrder(user, term, qs) ==
    LET plan == LookupPlan(user) IN
    /\ Len(qs) \in 1..Len(plan)
    /\ \A i \in 1..Len(qs) :
          /\ <<qs[i][1], qs[i][2]>> = plan[i]
          /\ i < Len(qs) => qs[i][3] # "hit"
          /\ qs[i][3] = "none" => Matches(plan[i], term) = {}
          /\ qs[i][3] = "hit" => Matches(plan[i], term) # {}

\* The return carries a value the last lookup found, in the field of that
\* lookup.
IsHitOf(out, step, term) ==
    /\ out.err = "nil"
    /\ IF step = <<"job", "project">>
       THEN out.project \in Matches(step, term)
            /\ out.username = <<>> /\ out.metasnip = <<>>
       ELSE IF step = <<"job", "meta_data">>
       THEN out.metasnip \in Matches(step, term)
            /\ out.username = <<>> /\ out.project = <<>>
       ELSE out.username \in Matches(step, term)
            /\ out.project = <<>> /\ out.metasnip = <<>>

NoResult(out) ==
    out.username = <<>> /\ out.project = <<>> /\ out.metasnip = <<>>

\* C18 as stated: a term that parses as an integer gives an empty result,
\* no error and no lookup; any other term gives the result of the first
\* lookup that hits, and not-found when none hits or the caller has no
\* identity.
C18_FirstHitOrNotFound ==
    fcall.op = "FindUserOrProjectOrJobname" =>
        LET out == fcall.out  qs == fcall.out.queries IN
        IF IsInteger(fcall.term)
        THEN NoResult(out) /\ out.err = "nil" /\ qs = <<>>
        ELSE IF ~fcall.user.present
        THEN NoResult(out) /\ out.err = "ErrNotFound" /\ qs = <<>>
        ELSE /\ InPlanOrder(fcall.user, fcall.term, qs)
             /\ IF qs[Len(qs)][3] = "hit"
                THEN IsHitOf(out, <<qs[Len(qs)][1], qs[Len(qs)][2]>>,
                             fcall.term)
                ELSE NoResult(out) /\ out.err = "ErrNotFound"

\* C18 amended: as stated, except that a lookup whose statement fails
\* counts as no hit for the first three lookups, and that a failure of the
\* last one, the match on the metadata, is returned as the error; a caller
\* without an elevated role gets only the match on the metadata.
C18_FirstHitInOrder ==
    fcall.op = "FindUserOrProjectOrJobname" =>
        LET out == fcall.out  qs == fcall.out.queries IN
        IF IsInteger(fcall.term)
        THEN NoResult(out) /\ out.err = "nil" /\ qs = <<>>
        ELSE IF ~fcall.user.present
        THEN NoResult(out) /\ out.err = "ErrNotFound" /\ qs = <<>>
        ELSE /\ InPlanOrder(fcall.user, fcall.term, qs)
             /\ CASE qs[Len(qs)][3] = "hit" ->
                       IsHitOf(out, <<qs[Len(qs)][1], qs[Len(qs)][2]>>,
                               fcall.term)
                  [] qs[Len(qs)][3] = "none" ->
                       /\ Len(qs) = Len(LookupPlan(fcall.user))
                       /\ NoResult(out) /\ out.err = "ErrNotFound"
                  [] OTHER ->
                       /\ Len(qs) = Len(LookupPlan(fcall.user))
                       /\ NoResult(out) /\ out.err = "db"

\* An elevated caller got the project of a job after the two lookups of a
\* username found nothing; the metadata was not searched.
C18_Witness ==
    /\ fcall.op = "FindUserOrProjectOrJobname"
    /\ fcall.out.project = fcall.term
    /\ fcall.out.project # <<>>
    /\ Len(fcall.out.queries) = 3
    /\ fcall.out.queries[1][3] = "none"
    /\ fcall.out.queries[2][3] = "none"

(***************************************************************************)
(* Statistics queries: CountGroupedJobs, JobsStatistics and                *)
(* jobsStatisticsHistogram.  A query is the sequence of its clauses in the *)
(* order the builder received them.  SecurityCheck and BuildWhereClause    *)
(* live in query.go; they are modelled from the documented contract: the   *)
(* role check is keyed on the caller's identity, hands back the query      *)
(* unmodified for an elevated caller, restricted to the caller's own rows  *)
(* for a plain user, and an error for a caller without identity or role.   *)
(***************************************************************************)
MaxFilters == 2
NumSubClusters == 2
MaxGroups == 1

StatCallers == {"none", "norole", "user", "elevated"}

\* query.go SecurityCheck: the query to run for this caller, or an error
\* with the zero builder.
SecurityCheck(user, query) ==
    CASE user = "elevated" -> [query |-> query, err |-> "nil"]
      [] user = "user"     -> [query |-> Append(query, "own"), err |-> "nil"]
      [] OTHER             -> [query |-> <<>>, err |-> "security"]

\* query.go BuildWhereClause applied to each of the n filters in turn.
RECURSIVE BuildWhereClauses(_, _)
BuildWhereClauses(n, query) ==
    IF n = 0 THEN query
    ELSE Append(BuildWhereClauses(n - 1, query), "filter")

\* Where a call goes when the role check failed: a variant that carries on
\* with the next step, and the code's early return.
CheckFailedContinues(next) == next

CheckFailed(next) == "ret"

statsOnly == <<jobRepoOnce, numWorkers, job, cache, archiveChannel,
               archivePending, wpc, wjob, wstats, trepo, tpc, tjob, tarchive,
               tcall, targ, tret, hist, waitFor, metaLog, nUpdates, computing,
               lru, lastOp, usertbl, fcall, now, rcall, derived, heap, returned, initdb>>

\* The role check on a freshly built query; checkedAt remembers how many
\* clauses the query had when it was checked.
Checked(raw, next) ==
    LET sc == SecurityCheck(scall.user, raw)
    IN  IF sc.err # "nil"
        THEN [scall EXCEPT !.query = sc.query, !.checkedAt = Len(raw),
                           !.err = sc.err, !.res = "nil",
                           !.pc = CheckFailed(next)]
        ELSE [scall EXCEPT !.query = sc.query, !.checkedAt = Len(raw),
                           !.pc = next]

\* The query is run: it is logged with the position of its role check.
Ran(query) == Append(qlog, [clauses |-> query, checkedAt |-> scall.checkedAt])

\* CountGroupedJobs up to the role check.
CountGroupedJobsCheck(user, valid, nf) ==
    /\ scall = NoStatsCall
    /\ LET c == [NoStatsCall EXCEPT !.op = "CountGroupedJobs",
                                    !.user = user, !.filters = nf]
       IN  IF ~valid
           THEN scall' = [c EXCEPT !.pc = "ret", !.err = "invalid"]
           ELSE LET sc == SecurityCheck(user, <<"select", "groupby", "orderby">>)
                IN  scall' = [c EXCEPT
                        !.query = sc.query, !.checkedAt = 3,
                        !.err = sc.err,
                        !.pc = IF sc.err # "nil" THEN CheckFailed("cg_run")
                               ELSE "cg_run"]
    /\ UNCHANGED <<qlog, statsOnly>>

\* CountGroupedJobs from the filters to the result.
CountGroupedJobsRun(hasLimit, dbOk) ==
    /\ scall.pc = "cg_run"
    /\ LET f == BuildWhereClauses(scall.filters, scall.query)
           q == IF hasLimit THEN Append(f, "limit") ELSE f
       IN  /\ qlog' = Ran(q)
           /\ scall' = [scall EXCEPT !.query = q, !.pc = "ret",
                            !.err = IF dbOk THEN "nil" ELSE "db",
                            !.res = IF dbOk THEN "counts" ELSE "nil"]
    /\ UNCHANGED statsOnly

\* JobsStatistics is called: the loop over the sub-clusters starts.
JobsStatisticsCall(user, nf, groupBy, histogramsNeeded) ==
    /\ scall = NoStatsCall
    /\ scall' = [NoStatsCall EXCEPT !.op = "JobsStatistics", !.user = user,
                     !.filters = nf, !.groupBy = groupBy,
                     !.hist = histogramsNeeded, !.pc = "js_sub", !.i = 1]
    /\ UNCHANGED <<qlog, statsOnly>>

\* The query of one sub-cluster is built and role-checked.
JobsStatisticsCheck ==
    /\ scall.pc = "js_sub"
    /\ LET sel == IF scall.groupBy THEN <<"select", "groupby">>
                  ELSE <<"select">>
           rawQuery == sel \o <<"where_cluster", "where_subcluster">>
       IN  scall' = Checked(rawQuery, "js_sub_run")
    /\ UNCHANGED <<qlog, statsOnly>>

\* The filters are added, the query runs and its rows are summed up.
JobsStatisticsRun(dbOk, g) ==
    /\ scall.pc = "js_sub_run"
    /\ LET q == BuildWhereClauses(scall.filters, scall.query)
           n == IF ~scall.groupBy THEN 1
                ELSE IF g > scall.groups THEN g ELSE scall.groups
       IN  /\ qlog' = Ran(q)
           /\ scall' =
                IF ~dbOk
                THEN [scall EXCEPT !.query = q, !.pc = "ret", !.err = "db"]
                ELSE IF scall.i < NumSubClusters
                THEN [scall EXCEPT !.query = q, !.groups = n,
                                   !.i = scall.i + 1, !.pc = "js_sub"]
                ELSE [scall EXCEPT !.query = q, !.groups = n,
                                   !.pc = "js_short"]
    /\ UNCHANGED statsOnly

\* The short-job query (plain or grouped) is built and role-checked.
ShortJobsCheck ==
    /\ scall.pc = "js_short"
    /\ scall' = Checked(<<"select", "where_short">>, "js_short_run")
    /\ UNCHANGED <<qlog, statsOnly>>

\* The filters are added and the short-job query runs; the histograms of
\* the first statistics entry follow when they were asked for.
ShortJobsRun(dbOk) ==
    /\ scall.pc = "js_short_run"
    /\ LET q == BuildWhereClauses(scall.filters, scall.query)
       IN  /\ qlog' = Ran(q)
           /\ scall' =
                IF ~dbOk
                THEN [scall EXCEPT !.query = q, !.pc = "ret", !.err = "db"]
                ELSE IF scall.hist /\ scall.groups > 0
                THEN [scall EXCEPT !.query = q, !.i = 1, !.pc = "js_hist"]
                ELSE [scall EXCEPT !.query = q, !.pc = "ret",
                                   !.res = "stats"]
    /\ UNCHANGED statsOnly

\* jobsStatisticsHistogram up to the role check.
HistogramCheck ==
    /\ scall.pc = "js_hist"
    /\ scall' = Checked(<<"select">>, "js_hist_run")
    /\ UNCHANGED <<qlog, statsOnly>>

\* jobsStatisticsHistogram from the filters to the points; every statistics
\* entry gets two histograms.
HistogramRun(dbOk) ==
    /\ scall.pc = "js_hist_run"
    /\ LET f == BuildWhereClauses(scall.filters, scall.query)
           w == IF scall.groupBy THEN Append(f, "id") ELSE f
           q == Append(w, "groupby")
       IN  /\ qlog' = Ran(q)
           /\ scall' =
                IF ~dbOk
                THEN [scall EXCEPT !.query = q, !.pc = "ret", !.err = "db"]
                ELSE IF scall.i < 2 * scall.groups
                THEN [scall EXCEPT !.query = q, !.i = scall.i + 1,
                                   !.pc = "js_hist"]
                ELSE [scall EXCEPT !.query = q, !.pc = "ret",
                                   !.res = "stats"]
    /\ UNCHANGED statsOnly

\* The caller has the result; the next call may start.
StatsReturn ==
    /\ scall.pc = "ret"
    /\ scall' = NoStatsCall
    /\ qlog' = <<>>
    /\ UNCHANGED statsOnly

InitStats ==
    /\ InitCommon
    /\ job = [i \in JobIds |-> NoRow]

NextStats ==
    \/ \E user \in StatCallers, valid \in BOOLEAN, nf \in 0..MaxFilters :
          CountGroupedJobsCheck(user, valid, nf)
    \/ \E hasLimit \in BOOLEAN, dbOk \in BOOLEAN :
          CountGroupedJobsRun(hasLimit, dbOk)
    \/ \E user \in StatCallers, nf \in 0..MaxFilters, groupBy \in BOOLEAN,
          histogramsNeeded \in BOOLEAN :
          JobsStatisticsCall(user, nf, groupBy, histogramsNeeded)
    \/ JobsStatisticsCheck
    \/ \E dbOk \in BOOLEAN, g \in 0..MaxGroups : JobsStatisticsRun(dbOk, g)
    \/ ShortJobsCheck
    \/ \E dbOk \in BOOLEAN : ShortJobsRun(dbOk)
    \/ HistogramCheck
    \/ \E dbOk \in BOOLEAN : HistogramRun(dbOk)
    \/ StatsReturn

SpecStats == InitStats /\ [][NextStats]_vars

\* The clauses a caller supplies.
CallerSupplied == {"filter", "limit"}

\* In a query every caller-supplied clause comes after the role check.
CheckedFirst(clauses, checkedAt) ==
    /\ checkedAt >= 0
    /\ \A i \in 1..Len(clauses) :
          clauses[i] \in CallerSupplied => i > checkedAt

\* C15: in CountGroupedJobs and in the per-sub-cluster, short-job and
\* histogram queries of JobsStatistics the role check is applied to the
\* query before any caller-supplied filter is added: every query that runs,
\* and the query being built, was role-checked when it held no
\* caller-supplied clause.  When the role check fails, the call returns
\* that error with no result and has run no query.
C15_RoleCheckBeforeFilters ==
    /\ \A k \in 1..Len(qlog) :
          CheckedFirst(qlog[k].clauses, qlog[k].checkedAt)
    /\ scall.query # <<>> => CheckedFirst(scall.query, scall.checkedAt)
    /\ qlog # <<>> => SecurityCheck(scall.user, <<>>).err = "nil"
    /\ scall.err = "security" =>
          /\ scall.pc = "ret"
          /\ scall.res = "nil"
          /\ qlog = <<>>
    /\ (scall.pc = "ret" /\ SecurityCheck(scall.user, <<>>).err # "nil") =>
          scall.err \in {"security", "invalid"}

\* A caller without a role has asked for statistics with filters and got
\* the error of the role check.
C15_Witness ==
    /\ scall.op = "JobsStatistics"
    /\ scall.pc = "ret"
    /\ scall.user = "norole"
    /\ scall.filters > 0
    /\ scall.err = "security"

(***************************************************************************)
(* Reads and bulk updates of the job table: scanJob behind Find, FindAll   *)
(* and FindById, Stop, and StopJobsExceedingWalltimeBy.  The clock counts  *)
(* whole seconds and never goes back.  int32 is kept with a small width so *)
(* that an elapsed time can leave its range.                               *)
(***************************************************************************)
MaxNow == 5
Int32Bits == 3

MaxInt32 == 2 ^ (Int32Bits - 1) - 1
MinInt32 == 0 - 2 ^ (Int32Bits - 1)

\* int32(f) of a float64 f: the value when it fits; the language leaves the
\* result to the implementation when it does not.
ToInt32(x) ==
    IF MinInt32 <= x /\ x <= MaxInt32 THEN {x} ELSE MinInt32..MaxInt32

\* scanJob: the condition under which the duration is derived; a variant
\* that derives it for every running job.
DerivesWhenRunning(row) == row.job_state = "running"

DerivesDuration(row) == row.duration = 0 /\ row.job_state = "running"

\* scanJob: the jobs a scanned row can become at time t.
scanJob(id, row, t) ==
    { [id |-> id, job_state |-> row.job_state, start_time |-> row.start_time,
       walltime |-> row.walltime, monitoring_status |-> row.monitoring_status,
       duration |-> d] :
        d \in IF DerivesDuration(row) THEN ToInt32(t - row.start_time)
              ELSE {row.duration} }

\* WHERE job.job_id = ? [AND job.cluster = ?] [AND job.start_time = ?];
\* "any" stands for a nil argument.
FindMatches(tbl, jobId, cluster, startTime) ==
    { i \in Present(tbl) :
        /\ tbl[i].job_id = jobId
        /\ cluster # "any" => tbl[i].cluster = cluster
        /\ startTime # -1 => tbl[i].start_time = startTime }

\* A set of ids as the sequence in ascending order.
RECURSIVE Ascending(_)
Ascending(ids) ==
    IF ids = {} THEN <<>>
    ELSE LET i == CHOOSE x \in ids : \A y \in ids : x <= y
         IN  <<i>> \o Ascending(ids \ {i})

\* The derived durations a read hands out are remembered per job.
Remember(jobs, tbl) ==
    [i \in JobIds |->
        IF \E k \in 1..Len(jobs) : jobs[k].id = i /\ DerivesDuration(tbl[i])
        THEN [read |-> TRUE,
              duration |-> (CHOOSE j \in {jobs[k] : k \in 1..Len(jobs)} :
                                j.id = i).duration]
        ELSE derived[i]]

jobsOnly == <<jobRepoOnce, numWorkers, cache, archiveChannel, archivePending,
              wpc, wjob, wstats, trepo, tpc, tjob, tarchive, tcall, targ, tret,
              hist, waitFor, metaLog, nUpdates, computing, lru, lastOp,
              usertbl, fcall, scall, qlog, heap, returned, initdb>>

\* The clock moves on.
Tick ==
    /\ now < MaxNow
    /\ now' = now + 1
    /\ UNCHANGED <<jobsOnly, job, rcall, derived, heap, returned, initdb>>

\* FindById: SELECT ... WHERE job.id = ?, one row scanned.
FindById(jobId, dbOk) ==
    /\ rcall = NoCall
    /\ IF dbOk /\ job[jobId].present
       THEN \E j \in scanJob(jobId, job[jobId], now) :
              /\ rcall' = [NoCall EXCEPT !.op = "FindById", !.id = jobId,
                               !.at = now, !.jobs = <<j>>, !.before = job]
              /\ derived' = Remember(<<j>>, job)
       ELSE /\ rcall' = [NoCall EXCEPT !.op = "FindById", !.id = jobId,
                             !.at = now, !.err = TRUE, !.before = job]
            /\ UNCHANGED derived
    /\ UNCHANGED <<jobsOnly, job, now>>

\* Find: the first row of the batch job id, cluster and start time given.
Find(jobId, cluster, startTime, dbOk) ==
    /\ rcall = NoCall
    /\ LET found == FindMatches(job, jobId, cluster, startTime)
       IN  IF dbOk /\ found # {}
           THEN \E i \in found : \E j \in scanJob(i, job[i], now) :
                  /\ rcall' = [NoCall EXCEPT !.op = "Find", !.id = jobId,
                                   !.at = now, !.jobs = <<j>>,
                                   !.before = job]
                  /\ derived' = Remember(<<j>>, job)
           ELSE /\ rcall' = [NoCall EXCEPT !.op = "Find", !.id = jobId,
                                 !.at = now, !.err = TRUE, !.before = job]
                /\ UNCHANGED derived
    /\ UNCHANGED <<jobsOnly, job, now>>

\* FindAll: every row of the batch job id, cluster and start time given.
FindAll(jobId, cluster, startTime, dbOk) ==
    /\ rcall = NoCall
    /\ LET found == Ascending(FindMatches(job, jobId, cluster, startTime))
       IN  IF dbOk
           THEN \E jobs \in [1..Len(found) ->
                               UNION {scanJob(i, job[i], now) : i \in JobIds}] :
                  /\ \A k \in 1..Len(found) :
                        jobs[k] \in scanJob(found[k], job[found[k]], now)
                  /\ rcall' = [NoCall EXCEPT !.op = "FindAll", !.id = jobId,
                                   !.at = now, !.jobs = jobs,
                                   !.before = job]
                  /\ derived' = Remember(jobs, job)
           ELSE /\ rcall' = [NoCall EXCEPT !.op = "FindAll", !.id = jobId,
                                 !.at = now, !.err = TRUE, !.before = job]
                /\ UNCHANGED derived
    /\ UNCHANGED <<jobsOnly, job, now>>

\* Stop: UPDATE job SET job_state, duration, monitoring_status WHERE id.
Stop(jobId, duration, state, monitoringStatus, dbOk) ==
    /\ rcall = NoCall
    /\ rcall' = [NoCall EXCEPT !.op = "Stop", !.id = jobId, !.at = now,
                     !.err = ~dbOk, !.before = job]
    /\ job' = IF dbOk /\ job[jobId].present
              THEN [job EXCEPT ![jobId].job_state = state,
                               ![jobId].duration = duration,
                               ![jobId].monitoring_status = monitoringStatus]
              ELSE job
    /\ UNCHANGED <<jobsOnly, now, derived, heap, returned, initdb>>

\* WHERE job.job_state = 'running' AND job.walltime > 0 AND
\* (now - job.start_time) > (job.walltime + seconds); a variant without the
\* grace period.
ExceedsWalltimeNoGrace(row, t, seconds) ==
    /\ row.job_state = "running"
    /\ row.walltime > 0
    /\ (t - row.start_time) > row.walltime

ExceedsWalltime(row, t, seconds) ==
    /\ row.job_state = "running"
    /\ row.walltime > 0
    /\ (t - row.start_time) > (row.walltime + seconds)

\* StopJobsExceedingWalltimeBy: one UPDATE over the table.
StopJobsExceedingWalltimeBy(seconds, dbOk) ==
    /\ rcall = NoCall
    /\ rcall' = [NoCall EXCEPT !.op = "StopJobsExceedingWalltimeBy",
                     !.seconds = seconds, !.at = now, !.err = ~dbOk,
                     !.before = job]
    /\ job' = IF ~dbOk THEN job
              ELSE [i \in JobIds |->
                      IF job[i].present /\ ExceedsWalltime(job[i], now, seconds)
                      THEN [job[i] EXCEPT
                              !.monitoring_status = ArchivingFailed,
                              !.duration = 0,
                              !.job_state = "failed"]
                      ELSE job[i]]
    /\ UNCHANGED <<jobsOnly, now, derived, heap, returned, initdb>>

\* The caller has the result; the next call may start.
CallReturn ==
    /\ rcall # NoCall
    /\ rcall' = NoCall
    /\ UNCHANGED <<jobsOnly, job, now, derived, heap, returned, initdb>>

Durations == {0, 3}
GracePeriods == {-1, 0, 1}

JobRow(start, walltime, state, duration) ==
    [Row("c1", "p1", start, EmptyRaw) EXCEPT
        !.walltime = walltime, !.job_state = state, !.duration = duration]

JobRows ==
    { JobRow(0, 2, "running", 0), JobRow(2, 2, "running", 0),
      JobRow(4, 0, "running", 0), JobRow(2, 0, "running", 3),
      JobRow(0, 2, "completed", 0), JobRow(2, 2, "completed", 3) }

InitJobs ==
    /\ InitCommon
    /\ job \in [JobIds -> JobRows \cup {NoRow}]
    /\ job[2] \in {NoRow, JobRow(2, 2, "running", 0)}

NextJobs ==
    \/ Tick
    \/ \E jobId \in JobIds, dbOk \in BOOLEAN : FindById(jobId, dbOk)
    \/ \E jobId \in {7, 8}, cluster \in {"any", "c1", "c2"},
          startTime \in {-1, 2}, dbOk \in BOOLEAN :
          \/ Find(jobId, cluster, startTime, dbOk)
          \/ FindAll(jobId, cluster, startTime, dbOk)
    \/ \E jobId \in JobIds, duration \in Durations, dbOk \in BOOLEAN :
          Stop(jobId, duration, "completed", ArchivingSuccessful, dbOk)
    \/ \E seconds \in GracePeriods, dbOk \in BOOLEAN :
          StopJobsExceedingWalltimeBy(seconds, dbOk)
    \/ CallReturn

SpecJobs == InitJobs /\ [][NextJobs]_vars

\* C16: StopJobsExceedingWalltimeBy(g) that succeeds changes exactly the
\* jobs that were running with walltime > 0 and (now - start_time) >
\* walltime + g: each gets state failed, duration 0 and monitoring status
\* archiving-failed, and every other row is as it was; a call that fails
\* changes no row.  No job is put on the archiving channel.
C16_StopsExactlyExceeding ==
    rcall.op = "StopJobsExceedingWalltimeBy" =>
        /\ \A i \in JobIds :
              LET b == rcall.before[i]
                  exceeding ==
                      /\ b.present
                      /\ b.job_state = "running"
                      /\ b.walltime > 0
                      /\ rcall.at - b.start_time > b.walltime + rcall.seconds
              IN  job[i] = IF exceeding /\ ~rcall.err
                           THEN [b EXCEPT !.job_state = "failed",
                                          !.duration = 0,
                                          !.monitoring_status = ArchivingFailed]
                           ELSE b
        /\ archiveChannel = <<>>
        /\ archivePending = 0

\* A call has stopped one job and left alone a running job whose elapsed
\* time equals its walltime plus the grace period.
C16_Witness ==
    /\ rcall.op = "StopJobsExceedingWalltimeBy"
    /\ ~rcall.err
    /\ \E i, k \in JobIds :
          /\ rcall.before[i].job_state = "running"
          /\ job[i].job_state = "failed"
          /\ job[i].monitoring_status = ArchivingFailed
          /\ job[k].present
          /\ job[k].job_state = "running"
          /\ job[k].walltime > 0
          /\ rcall.at - job[k].start_time = job[k].walltime + rcall.seconds

(***************************************************************************)
(* The metadata accessors with the identity of the map objects: a map is   *)
(* an entry of the heap, job.MetaData and the cache hold its address, and  *)
(* 0 is the nil map.  Each call is one step, made when the call before it  *)
(* has returned.                                                           *)
(***************************************************************************)
MaxObjects == 3

NilRef == 0

\* A fresh *schema.Job: MetaData is nil.
JobRef(id) == [ID |-> id, MetaData |-> NilRef, RawMetaData |-> EmptyRaw]

\* json.Unmarshal(raw, &job.MetaData): null makes the map nil; an object is
\* decoded into a new map when job.MetaData is nil and into the map it
\* refers to otherwise.
UnmarshalInto(h, raw, ref) ==
    IF raw.kind = "null" THEN [heap |-> h, ref |-> NilRef]
    ELSE IF ref = NilRef
    THEN [heap |-> Append(h, Unmarshal(raw, NilMap).kv), ref |-> Len(h) + 1]
    ELSE [heap |-> [h EXCEPT ![ref] = Unmarshal(raw, MkMap(h[ref])).kv],
          ref |-> ref]

\* FetchMetadata on job struct j with cache c, heap h and table tbl.
FetchMetadataRef(c, h, j, tbl, dbOk) ==
    LET k == MetaKey(j.ID) IN
    IF CacheHas(c, k)
    THEN [cache |-> c, heap |-> h, job |-> [j EXCEPT !.MetaData = c[k]],
          val |-> c[k], err |-> FALSE]
    ELSE IF ~(dbOk /\ tbl[j.ID].present)
    THEN [cache |-> c, heap |-> h, job |-> j, val |-> NilRef, err |-> TRUE]
    ELSE LET raw == tbl[j.ID].meta_data
             j1 == [j EXCEPT !.RawMetaData = raw]
             u == UnmarshalInto(h, raw, j.MetaData)
         IN  IF RawLen(raw) = 0
             THEN [cache |-> c, heap |-> h, job |-> j1, val |-> NilRef,
                   err |-> FALSE]
             ELSE [cache |-> CachePut(c, k, u.ref), heap |-> u.heap,
                   job |-> [j1 EXCEPT !.MetaData = u.ref], val |-> u.ref,
                   err |-> FALSE]

\* The entries of the map at ref with key set to val.
WithKey(h, ref, key, val) ==
    IF ref = NilRef THEN [k \in {key} |-> val]
    ELSE [k \in DOMAIN h[ref] \cup {key} |->
             IF k = key THEN val ELSE h[ref][k]]

\* UpdateMetadata, the map it persists: a variant that writes the key into
\* the map job.MetaData refers to, and the code's copy (cpy) or new map.
WriteInPlace(h, ref, key, val) ==
    IF ref = NilRef
    THEN [heap |-> Append(h, WithKey(h, ref, key, val)), ref |-> Len(h) + 1]
    ELSE [heap |-> [h EXCEPT ![ref] = WithKey(h, ref, key, val)], ref |-> ref]

CopyWithKey(h, ref, key, val) ==
    [heap |-> Append(h, WithKey(h, ref, key, val)), ref |-> Len(h) + 1]

refOnly == <<jobRepoOnce, numWorkers, archiveChannel, archivePending, wpc,
             wjob, wstats, trepo, tarchive, hist, waitFor, metaLog, computing,
             lru, lastOp, usertbl, fcall, scall, qlog, now, rcall, derived,
             initdb>>

\* The caller loads the job again: MetaData is nil.
LoadJobRef(t, id) ==
    /\ tpc[t] = "idle"
    /\ tjob[t] # JobRef(id)
    /\ tjob' = [tjob EXCEPT ![t] = JobRef(id)]
    /\ UNCHANGED <<refOnly, job, cache, tpc, tcall, targ, tret, nUpdates,
                   heap, returned, initdb>>

\* FetchMetadata(job) from call to return.
FetchMetadataDo(t, dbOk) ==
    /\ \A u \in Threads : tpc[u] = "idle"
    /\ LET f == FetchMetadataRef(cache, heap, tjob[t], job, dbOk) IN
         /\ Len(f.heap) <= MaxObjects
         /\ cache' = f.cache
         /\ heap' = f.heap
         /\ tjob' = [tjob EXCEPT ![t] = f.job]
         /\ returned' = IF f.err \/ f.val = NilRef THEN returned
                        ELSE returned \cup {f.val}
         /\ tret' = [tret EXCEPT ![t] =
                        [err |-> f.err, old |-> NilRef, new |-> f.val]]
    /\ tcall' = [tcall EXCEPT ![t] = "FetchMetadata"]
    /\ tpc' = [tpc EXCEPT ![t] = "ret"]
    /\ UNCHANGED <<refOnly, job, targ, nUpdates>>

\* UpdateMetadata(job, key, val) from call to return.
UpdateMetadataDo(t, key, val, dbFetch, dbExec) ==
    /\ \A u \in Threads : tpc[u] = "idle"
    /\ nUpdates < MaxUpdates
    /\ nUpdates' = nUpdates + 1
    /\ LET j == tjob[t]
           k == MetaKey(j.ID)
           c1 == CacheDel(cache, k)
           f == IF j.MetaData = NilRef
                THEN FetchMetadataRef(c1, heap, j, job, dbFetch)
                ELSE [cache |-> c1, heap |-> heap, job |-> j,
                      val |-> NilRef, err |-> FALSE]
           cp == CopyWithKey(f.heap, f.job.MetaData, key, val)
           raw == Marshal(MkMap(cp.heap[cp.ref]))
           j2 == [f.job EXCEPT !.MetaData = cp.ref, !.RawMetaData = raw]
       IN  IF f.err
           THEN /\ cache' = f.cache
                /\ heap' = f.heap
                /\ tjob' = [tjob EXCEPT ![t] = f.job]
                /\ tret' = [tret EXCEPT ![t] =
                               [err |-> TRUE, old |-> j.MetaData,
                                new |-> f.job.MetaData]]
                /\ UNCHANGED job
           ELSE /\ Len(cp.heap) <= MaxObjects
                /\ heap' = cp.heap
                /\ tjob' = [tjob EXCEPT ![t] = j2]
                /\ tret' = [tret EXCEPT ![t] =
                               [err |-> ~dbExec, old |-> f.job.MetaData,
                                new |-> cp.ref]]
                /\ IF dbExec
                   THEN /\ job' = UpdateMetaData(job, j.ID, raw)
                        /\ cache' = CachePut(f.cache, k, cp.ref)
                   ELSE /\ cache' = f.cache
                        /\ UNCHANGED job
    /\ tcall' = [tcall EXCEPT ![t] = "UpdateMetadata"]
    /\ targ' = [targ EXCEPT ![t] = [NoArgs EXCEPT !.key = key, !.val = val]]
    /\ tpc' = [tpc EXCEPT ![t] = "ret"]
    /\ UNCHANGED <<refOnly, returned, initdb>>

InitRef ==
    /\ jobRepoOnce = FALSE
    /\ numWorkers = 0
    /\ cache = EmptyCache
    /\ archiveChannel = <<>>
    /\ archivePending = 0
    /\ wpc = [w \in Workers |-> "recv"]
    /\ wjob = [w \in Workers |-> NoEntry]
    /\ wstats = [w \in Workers |-> EmptyKV]
    /\ trepo = [t \in Threads |-> FALSE]
    /\ tpc = [t \in Threads |-> "idle"]
    /\ tjob = [t \in Threads |-> JobRef(1)]
    /\ tarchive = [t \in Threads |-> NoEntry]
    /\ tcall = [t \in Threads |-> "none"]
    /\ targ = [t \in Threads |-> NoArgs]
    /\ tret = [t \in Threads |-> NoReturn]
    /\ hist = <<>>
    /\ waitFor = [t \in Threads |-> {}]
    /\ metaLog = [i \in JobIds |-> EmptyKV]
    /\ nUpdates = 0
    /\ computing = {}
    /\ lru = <<>>
    /\ lastOp = [op |-> "none", key |-> <<>>, evicted |-> {}]
    /\ usertbl = {}
    /\ fcall = NoLookup
    /\ scall = NoStatsCall
    /\ qlog = <<>>
    /\ now = 0
    /\ rcall = NoCall
    /\ derived = [i \in JobIds |-> NotRead]
    /\ heap = <<>>
    /\ returned = {}
    /\ initdb = NoInitDB
    /\ \E raw \in {EmptyRaw, NullRaw,
                     Marshal(MkMap([k \in {"jobName"} |-> "x"]))} :
         job = [i \in JobIds |-> Row("c1", "p1", 1, raw)]

NextRef ==
    \/ \E t \in Threads, id \in MetaIds : LoadJobRef(t, id)
    \/ \E id \in MetaIds : CacheExpire(MetaKey(id))
    \/ \E t \in Threads : Return(t)
    \/ \E t \in Threads, dbOk \in BOOLEAN : FetchMetadataDo(t, dbOk)
    \/ \E t \in Threads, a \in UpdateArgs, dbFetch \in BOOLEAN,
          dbExec \in BOOLEAN :
          UpdateMetadataDo(t, a[1], a[2], dbFetch, dbExec)

SpecRef == InitRef /\ [][NextRef]_vars

\* C17: UpdateMetadata is copy-on-write.  A step of UpdateMetadata leaves
\* every map object that existed before it with the entries it had, so the
\* maps held by the cache and the maps FetchMetadata returned earlier are
\* the same after the call; when the call succeeds the key is written into
\* a map object that did not exist before.
C17_CopyOnWrite ==
    [][\A t \in Threads :
         (tpc[t] = "idle" /\ tpc'[t] = "ret" /\ tcall'[t] = "UpdateMetadata")
         =>
         /\ Len(heap') >= Len(heap)
         /\ \A a \in 1..Len(heap) : heap'[a] = heap[a]
         /\ ~tret'[t].err =>
               /\ tret'[t].new > Len(heap)
               /\ tjob'[t].MetaData = tret'[t].new
               /\ targ'[t].key \in DOMAIN heap'[tret'[t].new]
               /\ heap'[tret'[t].new][targ'[t].key] = targ'[t].val]_vars

\* UpdateMetadata has succeeded on a job whose map FetchMetadata had
\* returned and the cache had held; that map does not have the new value.
C17_Witness ==
    \E t \in Threads :
        /\ tcall[t] = "UpdateMetadata"
        /\ tpc[t] = "ret"
        /\ ~tret[t].err
        /\ tret[t].old # NilRef
        /\ tret[t].old \in returned
        /\ \/ targ[t].key \notin DOMAIN heap[tret[t].old]
           \/ heap[tret[t].old][targ[t].key] # targ[t].val
        /\ heap[tret[t].new][targ[t].key] = targ[t].val

(***************************************************************************)
(* Properties of the reads of the job table.                               *)
(***************************************************************************)
ReadOps == {"FindById", "Find", "FindAll"}

\* A step in which a read returns its jobs.
ReadReturns == rcall = NoCall /\ rcall'.op \in ReadOps /\ ~rcall'.err

\* C19 as stated: for a job stored running with duration 0, Find, FindAll
\* and FindById return duration = now - start_time, derived again at every
\* read, so never less than at the read before; for every other job they
\* return the stored duration; a read writes nothing to the table.
C19_DerivedDuration ==
    [][/\ (rcall = NoCall /\ rcall'.op \in ReadOps) => job' = job
       /\ ReadReturns =>
            \A k \in 1..Len(rcall'.jobs) :
               LET j == rcall'.jobs[k]
                   b == job[j.id]
               IN  IF b.job_state = "running" /\ b.duration = 0
                   THEN /\ j.duration = now - b.start_time
                        /\ derived[j.id].read =>
                              j.duration >= derived[j.id].duration
                   ELSE j.duration = b.duration]_vars

\* C19, amended: the same, for the reads at which now - start_time fits the
\* 32-bit signed duration field.
C19_DerivedDurationInRange ==
    [][/\ (rcall = NoCall /\ rcall'.op \in ReadOps) => job' = job
       /\ ReadReturns =>
            \A k \in 1..Len(rcall'.jobs) :
               LET j == rcall'.jobs[k]
                   b == job[j.id]
                   elapsed == now - b.start_time
               IN  IF b.job_state = "running" /\ b.duration = 0
                   THEN (MinInt32 <= elapsed /\ elapsed <= MaxInt32) =>
                          /\ j.duration = elapsed
                          /\ derived[j.id].read =>
                                j.duration >= derived[j.id].duration
                   ELSE j.duration = b.duration]_vars

\* A read has returned the derived duration of a running job, more than 0,
\* while the row still holds duration 0; another running job has a stored
\* duration.
C19_Witness ==
    /\ rcall.op \in ReadOps
    /\ ~rcall.err
    /\ \E k \in 1..Len(rcall.jobs) :
          LET j == rcall.jobs[k] IN
          /\ job[j.id].job_state = "running"
          /\ job[j.id].duration = 0
          /\ j.duration = rcall.at - job[j.id].start_time
          /\ j.duration > 0
          /\ derived[j.id].duration = j.duration
    /\ \E i \in JobIds :
          /\ job[i].present
          /\ job[i].job_state = "running"
          /\ job[i].duration = 3

(***************************************************************************)
(* MarkArchived called on its own, with the statistics a caller can pass.  *)
(***************************************************************************)
Stat(avg, max) == [Avg |-> avg, Max |-> max]

Metrics == {"flops_any", "mem_used", "mem_bw", "load", "net_bw", "file_bw",
            "cpu_user"}

\* metricStats: no metric, known and unknown metrics mixed, every known
\* metric, an unknown metric alone, some known metrics.
MetricStatsChoices ==
    { EmptyKV,
      [m \in {"flops_any", "mem_used", "cpu_user"} |-> Stat(1, 2)],
      [m \in Metrics \ {"cpu_user"} |-> Stat(3, 4)],
      [m \in {"cpu_user"} |-> Stat(3, 4)],
      [m \in {"mem_bw", "load", "net_bw", "file_bw"} |->
          IF m = "load" THEN Stat(1, 2) ELSE Stat(3, 4)] }

\* MarkArchived(jobId, monitoringStatus, metricStats) from call to return.
MarkArchivedCall(jobId, monitoringStatus, metricStats, dbOk) ==
    /\ rcall = NoCall
    /\ rcall' = [NoCall EXCEPT !.op = "MarkArchived", !.id = jobId,
                     !.status = monitoringStatus, !.stats = metricStats,
                     !.at = now, !.err = ~dbOk, !.before = job]
    /\ job' = IF dbOk
              THEN MarkArchived(job, jobId, monitoringStatus, metricStats)
              ELSE job
    /\ UNCHANGED <<jobsOnly, now, derived>>

\* UpdateMonitoringStatus(job, monitoringStatus) from call to return.
UpdateMonitoringStatusCall(jobId, monitoringStatus, dbOk) ==
    /\ rcall = NoCall
    /\ rcall' = [NoCall EXCEPT !.op = "UpdateMonitoringStatus", !.id = jobId,
                     !.status = monitoringStatus, !.at = now, !.err = ~dbOk,
                     !.before = job]
    /\ job' = IF dbOk THEN UpdateMonitoringStatus(job, jobId, monitoringStatus)
              ELSE job
    /\ UNCHANGED <<jobsOnly, now, derived>>

\* Rows that were never archived and rows that carry statistics already.
InitMark ==
    /\ InitCommon
    /\ \E s1, s2 \in {NoStats, [c \in StatColumns |-> 5]} :
         \E p \in BOOLEAN :
           job = [i \in JobIds |->
                    IF i = 1
                    THEN [Row("c1", "p1", 1, EmptyRaw) EXCEPT !.stats = s1]
                    ELSE IF p
                    THEN [Row("c1", "p1", 1, EmptyRaw) EXCEPT !.stats = s2]
                    ELSE NoRow]

NextMark ==
    \/ \E jobId \in JobIds, st \in Terminal, ms \in MetricStatsChoices,
          dbOk \in BOOLEAN : MarkArchivedCall(jobId, st, ms, dbOk)
    \/ \E jobId \in JobIds, st \in Terminal \cup {Pending}, dbOk \in BOOLEAN :
          UpdateMonitoringStatusCall(jobId, st, dbOk)
    \/ CallReturn

SpecMark == InitMark /\ [][NextMark]_vars

\* The summary column of each recognized metric and the statistic kept in it.
Summary ==
    { <<"flops_any", "flops_any_avg", "Avg">>,
      <<"mem_bw", "mem_bw_avg", "Avg">>,
      <<"load", "load_avg", "Avg">>,
      <<"net_bw", "net_bw_avg", "Avg">>,
      <<"file_bw", "file_bw_avg", "Avg">>,
      <<"mem_used", "mem_used_max", "Max">> }

\* C20: MarkArchived(id, status, stats) that succeeds sets the monitoring
\* status of job id to status and, for each recognized metric in stats,
\* writes its summary column (the average; the maximum for mem_used); a
\* metric name outside the set changes no column, and the summary columns
\* of metrics absent from stats keep their value.  Every other column and
\* every other row stay as they were; a call whose statement fails changes
\* nothing.
C20_MarkArchivedWrites ==
    rcall.op = "MarkArchived" =>
        \A i \in JobIds :
            LET b == rcall.before[i] IN
            IF rcall.err \/ i # rcall.id \/ ~b.present
            THEN job[i] = b
            ELSE /\ job[i].monitoring_status = rcall.status
                 /\ \A s \in Summary :
                       job[i].stats[s[2]] =
                           IF s[1] \in DOMAIN rcall.stats
                           THEN IF s[3] = "Avg" THEN rcall.stats[s[1]].Avg
                                ELSE rcall.stats[s[1]].Max
                           ELSE b.stats[s[2]]
                 /\ DOMAIN job[i].stats = {s[2] : s \in Summary}
                 /\ job[i] = [b EXCEPT
                                !.monitoring_status = job[i].monitoring_status,
                                !.stats = job[i].stats]

\* MarkArchived has succeeded with a known and an unknown metric on a job
\* that carried statistics: the known columns are written, the others kept.
C20_Witness ==
    /\ rcall.op = "MarkArchived"
    /\ ~rcall.err
    /\ "cpu_user" \in DOMAIN rcall.stats
    /\ "mem_used" \in DOMAIN rcall.stats
    /\ rcall.before[rcall.id].present
    /\ rcall.before[rcall.id].stats["load_avg"] = 5
    /\ job[rcall.id].stats["load_avg"] = 5
    /\ job[rcall.id].stats["mem_used_max"] = 2
    /\ job[rcall.id].stats["flops_any_avg"] = 1
    /\ job[rcall.id].monitoring_status = rcall.status

(***************************************************************************)
(* Properties of DeleteJobsBefore, with the calls made one after the       *)
(* other: nothing runs between the count and the DELETE.                   *)
(***************************************************************************)
\* The step in which thread t runs the DELETE of DeleteJobsBefore.
DeleteRuns(t) == tpc[t] = "dj_delete" /\ tpc'[t] = "ret"

SecondsPerHour == 3600
ShortRunningJobsDuration == 300

SubCluster(cl, sub, sockets, cores) ==
    [cluster |-> cl, subcluster |-> sub, SocketsPerNode |-> sockets,
     CoresPerSocket |-> cores]

Configs ==
    { <<>>,
      <<SubCluster("c1", "s1", 1, 2)>>,
      <<SubCluster("c1", "s1", 1, 2), SubCluster("c1", "s2", 2, 2)>>,
      <<SubCluster("c1", "s1", 1, 2), SubCluster("c1", "s2", 2, 2),
        SubCluster("c2", "s1", 1, 2)>> }

RECURSIVE SumOf(_, _)
SumOf(f, S) ==
    IF S = {} THEN 0
    ELSE LET x == CHOOSE y \in S : TRUE IN f[x] + SumOf(f, S \ {x})

\* CAST(ROUND(SUM(...) / 3600) as int): sqlite3 divides integers, dropping
\* the remainder; mysql divides exactly and ROUND takes the nearest integer.
RoundedHours(driver, sum) ==
    IF driver = "sqlite3" THEN sum \div SecondsPerHour
    ELSE (2 * sum + SecondsPerHour) \div (2 * SecondsPerHour)

\* The caller as the role check sees it.
CallerClass(caller) ==
    IF ~caller.present THEN "none"
    ELSE IF caller.roles \cap {"admin", "support", "api"} # {} THEN "elevated"
    ELSE IF "user" \in caller.roles THEN "user"
    ELSE "norole"

\* The rows the role-checked query ranges over.
VisibleIds(tbl, caller) ==
    IF CallerClass(caller) = "elevated" THEN Present(tbl)
    ELSE {i \in Present(tbl) : tbl[i].user = caller.name}

\* groupBy2column; "" when groupBy is nil, and then the id column is ''.
GroupKey(row, col) == IF col = "" THEN "" ELSE row[col]

\* The rows of the statement of one (cluster, sub-cluster) pair.
SubClusterRows(tbl, ids, sc, col, driver) ==
    LET match == {i \in ids : /\ tbl[i].cluster = sc.cluster
                              /\ tbl[i].subcluster = sc.subcluster}
        of(g) == {i \in match : GroupKey(tbl[i], col) = g}
        line(g) ==
            [id |-> g,
             jobs |-> Cardinality(of(g)),
             walltime |-> RoundedHours(driver,
                 SumOf([i \in JobIds |-> tbl[i].duration], of(g))),
             corehours |-> RoundedHours(driver,
                 SumOf([i \in JobIds |->
                          tbl[i].duration * tbl[i].num_nodes
                             * sc.SocketsPerNode * sc.CoresPerSocket],
                       of(g)))]
    IN  IF col = "" THEN {line("")}
        ELSE {line(g) : g \in {GroupKey(tbl[i], col) : i \in match}}

NewStats(row) ==
    [TotalJobs |-> row.jobs, TotalWalltime |-> row.walltime,
     TotalCoreHours |-> row.corehours, ShortJobs |-> 0, Name |-> <<>>]

\* if s, ok := stats[id.String]; ok { s.TotalJobs += ... } else { new }; a
\* variant that takes the row of the last pair instead of adding it.
MergeOverwrites(stats, row) ==
    [g \in DOMAIN stats \cup {row.id} |->
        IF g = row.id THEN NewStats(row) ELSE stats[g]]

MergeRow(stats, row) ==
    [g \in DOMAIN stats \cup {row.id} |->
        IF g # row.id THEN stats[g]
        ELSE IF g \in DOMAIN stats
        THEN [stats[g] EXCEPT
                !.TotalJobs = @ + row.jobs,
                !.TotalWalltime = @ + row.walltime,
                !.TotalCoreHours = @ + row.corehours]
        ELSE NewStats(row)]

RECURSIVE MergeRows(_, _)
MergeRows(stats, rows) ==
    IF rows = {} THEN stats
    ELSE LET r == CHOOSE x \in rows : TRUE
         IN  MergeRows(MergeRow(stats, r), rows \ {r})

\* What a call returns next to an error: return nil, err.
ResultOnError == "nil"

\* for rows.Next() ends when the driver fails to deliver the next row, and
\* rows.Err() is not read: the loop has seen only some of the rows, and the
\* error is dropped.
Delivered(rows, outcome) ==
    IF outcome = "next" THEN (SUBSET rows) \ {rows} ELSE {rows}

Dropped(c, outcome) ==
    IF outcome = "next" THEN [c EXCEPT !.dropped = @ \cup {"next"}] ELSE c

\* The call ends with error e.
Failed(c, e) ==
    [c EXCEPT !.pc = "ret", !.err = e, !.res = ResultOnError,
              !.errs = Append(@, e)]

\* The short-job counts per group key, over the role-checked rows of every
\* cluster.
ShortJobRows(tbl, ids, col) ==
    LET short == {i \in ids : tbl[i].duration < ShortRunningJobsDuration}
    IN  IF col = "" THEN {[id |-> "", shortJobs |-> Cardinality(short)]}
        ELSE {[id |-> g,
               shortJobs |-> Cardinality({i \in short :
                                             GroupKey(tbl[i], col) = g})] :
                g \in {GroupKey(tbl[i], col) : i \in short}}

sumsOnly == <<jobRepoOnce, numWorkers, job, cache, archiveChannel,
              archivePending, wpc, wjob, wstats, trepo, tpc, tjob, tarchive,
              tcall, targ, tret, hist, waitFor, metaLog, nUpdates, computing,
              lru, lastOp, usertbl, fcall, now, rcall, derived, heap,
              returned, initdb>>

\* No call is running; the configuration and the driver stay.
Idle(c) ==
    [NoStatsCall EXCEPT !.config = c.config, !.driver = c.driver]

\* JobsStatistics is called: the statistics map is empty.
JobsStatisticsBegin(caller, col, histogramsNeeded) ==
    /\ scall.op = "none"
    /\ scall' = [Idle(scall) EXCEPT !.op = "JobsStatistics",
                     !.caller = caller, !.col = col,
                     !.hist = histogramsNeeded, !.pc = "sub", !.i = 1]
    /\ qlog' = <<>>
    /\ UNCHANGED sumsOnly

\* One turn of the loop over the sub-clusters: role check, statement, the
\* rows merged into the map; after the last pair the short jobs follow.
JobsStatisticsSubCluster(outcome) ==
    /\ scall.pc = "sub"
    /\ scall.i <= Len(scall.config)
    /\ LET rows == SubClusterRows(job, VisibleIds(job, scall.caller),
                                  scall.config[scall.i], scall.col,
                                  scall.driver)
       IN  IF CallerClass(scall.caller) \in {"none", "norole"}
           THEN /\ scall' = Failed(scall, "security")
                /\ UNCHANGED qlog
           ELSE IF outcome = "query"
           THEN /\ scall' = Failed(scall, "query")
                /\ UNCHANGED qlog
           ELSE IF outcome = "scan"
           THEN /\ rows # {}
                /\ \E some \in SUBSET rows :
                      /\ some # rows
                      /\ scall' = Failed([scall EXCEPT !.stats =
                                            MergeRows(@, some)], "scan")
                /\ UNCHANGED qlog
           ELSE \E got \in Delivered(rows, outcome) :
                  /\ scall' = [Dropped(scall, outcome) EXCEPT
                                  !.stats = MergeRows(@, got), !.i = @ + 1]
                  /\ qlog' = Append(qlog, [i |-> scall.i, rows |-> got])
    /\ UNCHANGED sumsOnly

\* The short-job statement.  Without grouping the count is scanned into
\* stats[""].ShortJobs (QueryRow().Scan reports every error of the
\* statement); with grouping each row is assigned to stats[id].ShortJobs.
\* An entry that is missing is a nil pointer.
JobsStatisticsShortJobs(outcome) ==
    /\ scall.pc = "sub"
    /\ scall.i > Len(scall.config)
    /\ LET rows == ShortJobRows(job, VisibleIds(job, scall.caller), scall.col)
           set(st, got) ==
               [g \in DOMAIN st |->
                   IF \E r \in got : r.id = g
                   THEN [st[g] EXCEPT !.ShortJobs =
                           (CHOOSE r \in got : r.id = g).shortJobs]
                   ELSE st[g]]
       IN  IF CallerClass(scall.caller) \in {"none", "norole"}
           THEN scall' = Failed(scall, "security")
           ELSE IF scall.col = ""
           THEN scall' =
                  IF "" \notin DOMAIN scall.stats
                  THEN [scall EXCEPT !.pc = "panic", !.err = "panic"]
                  ELSE IF outcome # "ok"
                  THEN Failed(scall, IF outcome = "next" THEN "query"
                                     ELSE outcome)
                  ELSE [scall EXCEPT !.stats = set(@, rows), !.pc = "hist"]
           ELSE IF outcome \in {"query", "scan"}
           THEN scall' = Failed(scall, outcome)
           ELSE \E got \in Delivered(rows, outcome) :
                  scall' =
                    IF \E r \in got : r.id \notin DOMAIN scall.stats
                    THEN [scall EXCEPT !.pc = "panic", !.err = "panic"]
                    ELSE [Dropped(scall, outcome) EXCEPT
                            !.stats = set(@, got),
                            !.pc = IF scall.col = "user" THEN "names"
                                   ELSE "hist"]
    /\ UNCHANGED <<qlog, sumsOnly>>

\* if col == "job.user": the name of each user, "-" when FindColumnValue
\* gives none; its error is dropped.
JobsStatisticsNames ==
    /\ scall.pc = "names"
    /\ \E names \in [DOMAIN scall.stats ->
                        UNION {FindColumnValue(job, usertbl, scall.caller, g,
                                   "user", "name", "username", FALSE) :
                               g \in DOMAIN scall.stats}] :
          /\ \A g \in DOMAIN scall.stats :
                names[g] \in FindColumnValue(job, usertbl, scall.caller, g,
                                 "user", "name", "username", FALSE)
          /\ scall' = [scall EXCEPT
                !.stats = [g \in DOMAIN @ |->
                             [@[g] EXCEPT !.Name =
                                 IF names[g].result # <<>>
                                 THEN names[g].result ELSE <<"-">>]],
                !.dropped = @ \cup
                    ({names[g].err : g \in DOMAIN names} \ {"nil"}),
                !.pc = "hist"]
    /\ UNCHANGED <<qlog, sumsOnly>>

\* The two histograms of every entry, when they are asked for; then the
\* entries are returned.
JobsStatisticsHistograms(outcome) ==
    /\ scall.pc = "hist"
    /\ scall' =
         IF scall.hist /\ DOMAIN scall.stats # {} /\ outcome \in {"query", "scan"}
         THEN Failed(scall, outcome)
         ELSE [(IF scall.hist /\ DOMAIN scall.stats # {}
                THEN Dropped(scall, outcome) ELSE scall)
               EXCEPT !.pc = "ret", !.res = "stats"]
    /\ UNCHANGED <<qlog, sumsOnly>>

\* The rows of CountGroupedJobs: group -> count(*).
CountRows(tbl, ids, col) ==
    [g \in {GroupKey(tbl[i], col) : i \in ids} |->
        Cardinality({i \in ids : GroupKey(tbl[i], col) = g})]

\* CountGroupedJobs from call to return.
CountGroupedJobs(caller, valid, col, outcome) ==
    /\ scall.op = "none"
    /\ LET c == [Idle(scall) EXCEPT !.op = "CountGroupedJobs",
                                    !.caller = caller, !.col = col]
           counts == CountRows(job, VisibleIds(job, caller), col)
       IN  IF ~valid
           THEN scall' = Failed(c, "invalid")
           ELSE IF CallerClass(caller) \in {"none", "norole"}
           THEN scall' = Failed(c, "security")
           ELSE IF outcome = "query"
           THEN scall' = Failed(c, "query")
           ELSE IF outcome = "scan"
           THEN /\ DOMAIN counts # {}
                /\ \E some \in SUBSET DOMAIN counts :
                      /\ some # DOMAIN counts
                      /\ scall' = Failed([c EXCEPT !.stats =
                                            [g \in some |-> counts[g]]],
                                         "scan")
           ELSE \E got \in Delivered(DOMAIN counts, outcome) :
                  scall' = [Dropped(c, outcome) EXCEPT
                              !.stats = [g \in got |-> counts[g]],
                              !.pc = "ret", !.res = "stats"]
    /\ qlog' = <<>>
    /\ UNCHANGED sumsOnly

\* The caller has the result, or the panic has ended the request.
JobsStatisticsEnd ==
    /\ scall.pc \in {"ret", "panic"}
    /\ scall' = Idle(scall)
    /\ qlog' = <<>>
    /\ UNCHANGED sumsOnly

SumRow(u, cl, sub, dur, nodes) ==
    [Row(cl, "p1", 1, EmptyRaw) EXCEPT
        !.user = u, !.subcluster = sub, !.duration = dur,
        !.num_nodes = nodes, !.job_state = "completed"]

SumRows ==
    { NoRow,
      SumRow(<<"a", "n">>, "c1", "s1", 1800, 1),
      SumRow(<<"a", "n">>, "c1", "s2", 5400, 2),
      SumRow(<<"b", "o">>, "c1", "s1", 100, 1),
      SumRow(<<"b", "o">>, "c2", "s1", 100, 1),
      SumRow(<<"a", "n">>, "c2", "s2", 9000, 2) }

SumCallers ==
    {NoUser} \cup {[name |-> <<"a", "n">>, roles |-> rs, present |-> TRUE] :
                      rs \in {{"admin"}, {"user"}}}

GroupColumns == {"", "user", "cluster"}

Outcomes == {"ok", "query", "scan", "next"}

InitSums ==
    /\ jobRepoOnce = FALSE
    /\ numWorkers = 0
    /\ cache = EmptyCache
    /\ archiveChannel = <<>>
    /\ archivePending = 0
    /\ wpc = [w \in Workers |-> "recv"]
    /\ wjob = [w \in Workers |-> NoEntry]
    /\ wstats = [w \in Workers |-> EmptyKV]
    /\ trepo = [t \in Threads |-> FALSE]
    /\ tpc = [t \in Threads |-> "idle"]
    /\ tjob = [t \in Threads |-> NewJob(1)]
    /\ tarchive = [t \in Threads |-> NoEntry]
    /\ tcall = [t \in Threads |-> "none"]
    /\ targ = [t \in Threads |-> NoArgs]
    /\ tret = [t \in Threads |-> NoReturn]
    /\ hist = <<>>
    /\ waitFor = [t \in Threads |-> {}]
    /\ metaLog = [i \in JobIds |-> EmptyKV]
    /\ nUpdates = 0
    /\ computing = {}
    /\ lru = <<>>
    /\ lastOp = [op |-> "none", key |-> <<>>, evicted |-> {}]
    /\ fcall = NoLookup
    /\ qlog = <<>>
    /\ now = 0
    /\ rcall = NoCall
    /\ derived = [i \in JobIds |-> NotRead]
    /\ heap = <<>>
    /\ returned = {}
    /\ initdb = NoInitDB
    /\ usertbl \in {{}, UserRows}
    /\ job \in [JobIds -> SumRows]
    /\ \E cfg \in Configs, driver \in {"sqlite3", "mysql"} :
          scall = [NoStatsCall EXCEPT !.config = cfg, !.driver = driver]

NextSums ==
    \/ \E caller \in SumCallers, col \in GroupColumns,
          histogramsNeeded \in BOOLEAN :
          JobsStatisticsBegin(caller, col, histogramsNeeded)
    \/ \E outcome \in Outcomes : JobsStatisticsSubCluster(outcome)
    \/ \E outcome \in Outcomes : JobsStatisticsShortJobs(outcome)
    \/ JobsStatisticsNames
    \/ \E outcome \in Outcomes : JobsStatisticsHistograms(outcome)
    \/ \E caller \in SumCallers, valid \in BOOLEAN, col \in GroupColumns,
          outcome \in Outcomes : CountGroupedJobs(caller, valid, col, outcome)
    \/ JobsStatisticsEnd

SpecSums == InitSums /\ [][NextSums]_vars

(***************************************************************************)
(* Properties of the statistics.                                           *)
(***************************************************************************)
\* The row of group g in the result of the k-th pair, zeros when it has
\* none.
PartialOf(k, g) ==
    IF \E r \in qlog[k].rows : r.id = g
    THEN CHOOSE r \in qlog[k].rows : r.id = g
    ELSE [id |-> g, jobs |-> 0, walltime |-> 0, corehours |-> 0]

\* v is sum / 3600 rounded to an integer, down or to the nearest.
IsRounded(v, sum) ==
    /\ v * SecondsPerHour - sum < SecondsPerHour
    /\ sum - v * SecondsPerHour < SecondsPerHour

\* C22: JobsStatistics merges the results of the (cluster, sub-cluster)
\* pairs by grouping key.  Every configured pair contributes one result;
\* its row for a group holds the number of that group's jobs in the pair
\* and SUM(duration) / 3600 and SUM(duration * nodes * sockets-per-node *
\* cores-per-socket) / 3600, each rounded to an integer.  In the returned
\* statistics the total jobs, walltime and core hours of every group are
\* the sums of the pairs' values; grouped by cluster, a cluster's totals
\* are the sums over its sub-clusters.  A pair has a row for each of its
\* groups when the driver delivered every row.
C22_TotalsAreSumsOfPairs ==
    (scall.op = "JobsStatistics" /\ scall.pc = "ret" /\ scall.err = "nil") =>
        LET n == Len(scall.config)
            ids == VisibleIds(job, scall.caller)
            in(k, g) == {i \in ids :
                           /\ job[i].cluster = scall.config[k].cluster
                           /\ job[i].subcluster = scall.config[k].subcluster
                           /\ GroupKey(job[i], scall.col) = g}
        IN  /\ Len(qlog) = n
            /\ \A k \in 1..n :
                  /\ qlog[k].i = k
                  /\ \A r \in qlog[k].rows :
                        /\ r.jobs = Cardinality(in(k, r.id))
                        /\ IsRounded(r.walltime,
                              SumOf([i \in JobIds |-> job[i].duration],
                                    in(k, r.id)))
                        /\ IsRounded(r.corehours,
                              SumOf([i \in JobIds |->
                                       job[i].duration * job[i].num_nodes
                                         * scall.config[k].SocketsPerNode
                                         * scall.config[k].CoresPerSocket],
                                    in(k, r.id)))
                  /\ \A i \in ids :
                        (/\ "next" \notin scall.dropped
                         /\ in(k, GroupKey(job[i], scall.col)) # {}) =>
                            \E r \in qlog[k].rows :
                                r.id = GroupKey(job[i], scall.col)
            /\ DOMAIN scall.stats =
                  UNION {{r.id : r \in qlog[k].rows} : k \in 1..n}
            /\ \A g \in DOMAIN scall.stats :
                  /\ scall.stats[g].TotalJobs =
                        SumOf([k \in 1..n |-> PartialOf(k, g).jobs], 1..n)
                  /\ scall.stats[g].TotalWalltime =
                        SumOf([k \in 1..n |-> PartialOf(k, g).walltime], 1..n)
                  /\ scall.stats[g].TotalCoreHours =
                        SumOf([k \in 1..n |-> PartialOf(k, g).corehours],
                              1..n)

\* Statistics grouped by cluster have been returned for a cluster with two
\* configured sub-clusters that both hold jobs.
C22_Witness ==
    /\ scall.op = "JobsStatistics"
    /\ scall.pc = "ret"
    /\ scall.err = "nil"
    /\ scall.col = "cluster"
    /\ Len(qlog) >= 2
    /\ \E r1 \in qlog[1].rows, r2 \in qlog[2].rows :
          /\ r1.id = "c1"
          /\ r2.id = "c1"
          /\ r1.corehours > 0
          /\ r2.corehours > 0
          /\ scall.stats["c1"].TotalCoreHours >= r1.corehours + r2.corehours

\* C23: CountGroupedJobs and JobsStatistics abort at the first error of the
\* role check, a statement or a row scan: once an error has occurred the
\* call has returned, with that error and a nil result; no error is passed
\* over, so that what is returned is never built from a part of the rows.
C23_AbortsAtFirstError ==
    /\ scall.dropped = {}
    /\ scall.errs # <<>> =>
          /\ scall.pc = "ret"
          /\ scall.err = scall.errs[1]
          /\ scall.res = "nil"

\* C24: the short-job step of JobsStatistics never reaches for a
\* statistics entry that the pass over the sub-clusters has not created:
\* the nil pointer is never dereferenced, whatever the store and the
\* configuration hold.
C24_ShortJobsEntryExists == scall.pc # "panic"

\* C25: the counter of pending work, r.archivePending, is the number of
\* callers of TriggerArchiving that have not completed their send, plus the
\* jobs in the channel, plus the jobs a worker has received and not
\* finished; it is zero when the channel is empty, the worker waits for a
\* job and no caller is sending.
C25_PendingCountsWork ==
    archivePending =
        Cardinality({t \in Threads : tpc[t] = "send"})
          + Len(archiveChannel)
          + Cardinality({w \in Workers : wpc[w] # "recv"})

\* The pipeline with a channel that holds WideChannelCap jobs, so that
\* several jobs wait in it at once.
\* The record of the calls with the place of t's job in the order of the
\* sends, and with the jobs it joins in the channel.
Sent(t) ==
    [k \in 1..Len(hist) |->
        IF k = tarchive[t].ticket
        THEN [hist[k] EXCEPT !.sent =
                1 + Cardinality({i \in 1..Len(hist) : hist[i].sent # 0})]
        ELSE [hist[k] EXCEPT !.together =
                @ \/ \E i \in 1..Len(archiveChannel) :
                        archiveChannel[i].ticket = k]]

TriggerArchivingSendWide(t) ==
    Len(archiveChannel) < WideChannelCap /\ Enqueue(t, Sent(t))

NextFifo ==
    \/ \E t \in Threads : GetJobRepository(t)
    \/ \E t \in Threads, id \in JobIds : TriggerArchivingAdd(t, id)
    \/ \E t \in Threads : TriggerArchivingSendWide(t)
    \/ \E w \in Workers : WorkerStep(w)

SpecFifo == InitArchive /\ [][NextFifo]_vars

\* The worker hands ticket k to the archive client in this step.
ArchiveCallStarts(k) ==
    \E w \in Workers :
        /\ wpc[w] = "archive"
        /\ wjob[w].ticket = k
        /\ hist'[k].calls = hist[k].calls + 1

\* Ticket a entered the channel before ticket b.
EnqueuedBefore(a, b) ==
    /\ hist[a].sent # 0
    /\ hist[b].sent # 0
    /\ hist[a].sent < hist[b].sent

\* C27 as stated: the worker handles the jobs in the order they entered the
\* channel: when B is handed to the archive client, the terminal monitoring
\* status of every job A that entered the channel before B has been
\* written, so that the job of A carries a terminal status.
C27_FifoStatusWritten ==
    [][\A a, b \in Tickets :
          (ArchiveCallStarts(b) /\ EnqueuedBefore(a, b)) =>
              Finished(a) /\ StatusOf(hist[a].id) \in Terminal]_vars

\* C27 amended: when B is handed to the archive client, the handling of
\* every job A that entered the channel before B has ended, and the job of
\* an A that was archived carries a terminal status; A is not handed to
\* the archive client afterwards.
C27_FifoHandled ==
    [][\A a, b \in Tickets :
          (ArchiveCallStarts(b) /\ EnqueuedBefore(a, b)) =>
              /\ Finished(a)
              /\ ~InWorker(a)
              /\ hist[a].outcome = "ok" => StatusOf(hist[a].id) \in Terminal
              /\ hist'[a].calls = hist[a].calls]_vars

\* Two jobs were in the channel together; the status of the first was
\* written and the second has been handed to the archive client.
C27_Witness ==
    \E a, b \in Tickets :
        /\ EnqueuedBefore(a, b)
        /\ hist[a].together
        /\ hist[a].outcome = "ok"
        /\ StatusOf(hist[a].id) = ArchivingSuccessful
        /\ hist[b].calls = 1

\* Map m holds value val under key.
HoldsPair(m, key, val) == key \in DOMAIN m.kv /\ m.kv[key] = val

\* UpdateMetadata of thread t returns an error in this step.
UpdateFails(t) ==
    /\ tcall[t] = "UpdateMetadata"
    /\ tpc[t] # "ret"
    /\ tpc'[t] = "ret"
    /\ tret'[t].err

\* C26: an UpdateMetadata that fails has left the stored metadata as it was,
\* and when it returns the cache entry metadata:<id> is absent or equal to
\* the stored metadata; the cache never holds a key/value passed to
\* UpdateMetadata that the store does not hold.
C26_FailedUpdateNotCached ==
    /\ [][\A t \in Threads :
             UpdateFails(t) =>
                 /\ job' = job
                 /\ CacheHas(cache', MetaKey(tjob[t].ID)) =>
                       cache'[MetaKey(tjob[t].ID)] = Stored(tjob[t].ID)]_vars
    /\ [](\A id \in MetaIds, a \in UpdateArgs :
             (/\ CacheHas(cache, MetaKey(id))
              /\ HoldsPair(cache[MetaKey(id)], a[1], a[2])) =>
                 HoldsPair(Stored(id), a[1], a[2]))

(***************************************************************************)
(* initDB (init-db.go): the jobs of the archive are inserted in            *)
(* transactions of BundleSize jobs (200 in the code), with their tags.     *)
(* Strings are sequences of characters, so that tag.Name + ":" + tag.Type  *)
(* is a concatenation.                                                     *)
(***************************************************************************)
\* Job directories in the archive.
MaxJobs == 5
\* if i%200 == 0: the jobs per transaction.
BundleSize == 2

Tag(name, type) == [name |-> name, type |-> type]

\* The tags of meta.json files; the last two differ in name and in type.
TagC == Tag(<<"a">>, <<"c">>)
TagBC == Tag(<<"a">>, <<"b", ":", "c">>)
TagAB == Tag(<<"a", ":", "b">>, <<"c">>)

\* job.Tags of one meta.json.  No list gives a job two tags with one tag
\* string: jobtag has the primary key (job_id, tag_id).
TagLists == {<<>>, <<TagC>>, <<TagC, TagBC>>, <<TagAB>>}

\* tagstr := tag.Name + ":" + tag.Type; a variant that keeps name and type
\* apart.
TagPair(tag) == <<tag.name, tag.type>>

TagStr(tag) == tag.name \o <<":">> \o tag.type

\* The transaction after tx.Commit() / before db.Begin().
NoTx == [open |-> FALSE, jobs |-> 0]

StartInitDB(n) ==
    [NoInitDB EXCEPT !.pc = "bundle", !.n = n]

\* The tag loop of loadJob over the first k tags of job.Tags, for the job
\* inserted with id: d is the state before.
RECURSIVE LoadTags(_, _, _, _)
LoadTags(d, id, tagList, k) ==
    IF k = 0 THEN d
    ELSE LET b == LoadTags(d, id, tagList, k - 1)
             tag == tagList[k]
             known == TagStr(tag) \in DOMAIN b.tags
             rows == IF known THEN b.tagtbl ELSE Append(b.tagtbl, tag)
             tagId == IF known THEN b.tags[TagStr(tag)] ELSE Len(rows)
         IN  [b EXCEPT
                !.tagtbl = rows,
                !.tags = [s \in DOMAIN @ \cup {TagStr(tag)} |->
                             IF s = TagStr(tag) THEN tagId ELSE @[s]],
                !.jobtag = @ \cup {<<id, tagId>>}]

initOnly == <<jobRepoOnce, numWorkers, job, cache, archiveChannel,
              archivePending, wpc, wjob, wstats, trepo, tpc, tjob, tarchive,
              tcall, targ, tret, hist, waitFor, metaLog, nUpdates, computing,
              lru, lastOp, usertbl, fcall, scall, qlog, now, rcall, derived,
              heap, returned>>

\* The head of the loop body: every BundleSize jobs the open transaction is
\* committed and the next one begun; after the last entry the loop ends.
InitDBBundle(commitOk, beginOk) ==
    /\ initdb.pc = "bundle"
    /\ initdb' =
         IF initdb.i = initdb.n
         THEN [initdb EXCEPT !.pc = "commit"]
         ELSE IF initdb.i % BundleSize # 0
         THEN [initdb EXCEPT !.pc = "load"]
         ELSE IF initdb.tx.open /\ ~commitOk
         THEN [initdb EXCEPT !.pc = "ret", !.ret = "err"]
         ELSE IF ~beginOk
         THEN [initdb EXCEPT !.pc = "ret", !.ret = "err",
                             !.tx = NoTx,
                             !.committed = @ + (IF initdb.tx.open THEN 1
                                                ELSE 0)]
         ELSE [initdb EXCEPT !.pc = "load",
                             !.tx = [open |-> TRUE, jobs |-> 0],
                             !.opened = @ + 1,
                             !.committed = @ + (IF initdb.tx.open THEN 1
                                                ELSE 0)]
    /\ UNCHANGED initOnly

\* loadJob: the job row, then a tag row for each tag string not seen yet and
\* a jobtag row per tag; failed is the statement that fails, 0 for the
\* INSERT of the job, 0 < k for the k-th tag, -1 for none.
loadJob(tagList, failed) ==
    /\ initdb.pc = "load"
    /\ failed <= Len(tagList)
    /\ LET id == initdb.i + 1
           d == [initdb EXCEPT !.jobtbl = @ \cup {id},
                               !.wanted = @ \cup {<<id, TagPair(tagList[k])>> :
                                                     k \in 1..Len(tagList)},
                               !.tx.jobs = @ + 1]
       IN  initdb' =
             IF failed = 0
             THEN [initdb EXCEPT !.pc = "ret", !.ret = "err"]
             ELSE IF failed > 0
             THEN [LoadTags(d, id, tagList, failed - 1) EXCEPT
                      !.pc = "ret", !.ret = "err"]
             ELSE [LoadTags(d, id, tagList, Len(tagList)) EXCEPT
                      !.pc = "bundle", !.i = @ + 1]
    /\ UNCHANGED initOnly

\* After the loop: tx.Commit() on the transaction variable, which is nil
\* when the loop body never ran; then the indexes; return nil.
InitDBCommit(commitOk, indexOk) ==
    /\ initdb.pc = "commit"
    /\ initdb' =
         IF initdb.opened = 0
         THEN [initdb EXCEPT !.pc = "ret", !.ret = "panic"]
         ELSE IF ~commitOk
         THEN [initdb EXCEPT !.pc = "ret", !.ret = "err"]
         ELSE [initdb EXCEPT !.pc = "ret", !.tx = NoTx,
                             !.committed = @ + 1,
                             !.ret = IF indexOk THEN "nil" ELSE "err"]
    /\ UNCHANGED initOnly

\* The program has ended; it is run on another archive.
InitDBAgain(n) ==
    /\ initdb.pc = "ret"
    /\ initdb' = StartInitDB(n)
    /\ UNCHANGED initOnly

InitInitDB ==
    /\ jobRepoOnce = FALSE
    /\ numWorkers = 0
    /\ job = [i \in JobIds |-> NoRow]
    /\ cache = EmptyCache
    /\ archiveChannel = <<>>
    /\ archivePending = 0
    /\ wpc = [w \in Workers |-> "recv"]
    /\ wjob = [w \in Workers |-> NoEntry]
    /\ wstats = [w \in Workers |-> EmptyKV]
    /\ trepo = [t \in Threads |-> FALSE]
    /\ tpc = [t \in Threads |-> "idle"]
    /\ tjob = [t \in Threads |-> NewJob(1)]
    /\ tarchive = [t \in Threads |-> NoEntry]
    /\ tcall = [t \in Threads |-> "none"]
    /\ targ = [t \in Threads |-> NoArgs]
    /\ tret = [t \in Threads |-> NoReturn]
    /\ hist = <<>>
    /\ waitFor = [t \in Threads |-> {}]
    /\ metaLog = [i \in JobIds |-> EmptyKV]
    /\ nUpdates = 0
    /\ computing = {}
    /\ lru = <<>>
    /\ lastOp = [op |-> "none", key |-> <<>>, evicted |-> {}]
    /\ usertbl = {}
    /\ fcall = NoLookup
    /\ scall = NoStatsCall
    /\ qlog = <<>>
    /\ now = 0
    /\ rcall = NoCall
    /\ derived = [i \in JobIds |-> NotRead]
    /\ heap = <<>>
    /\ returned = {}
    /\ \E n \in 0..MaxJobs : initdb = StartInitDB(n)

NextInitDB ==
    \/ \E commitOk, beginOk \in BOOLEAN : InitDBBundle(commitOk, beginOk)
    \/ \E tagList \in TagLists, failed \in -1..2 : loadJob(tagList, failed)
    \/ \E commitOk, indexOk \in BOOLEAN : InitDBCommit(commitOk, indexOk)
    \/ \E n \in 0..MaxJobs : InitDBAgain(n)

SpecInitDB == InitInitDB /\ [][NextInitDB]_vars

\* C28: initDB bundles the inserts in transactions of at most BundleSize
\* jobs and, for every number of jobs from zero on, ends by returning; it
\* returns nil only when every job and every link between a job and its
\* tags is inserted and every transaction it began is committed, and each
\* distinct (name, type) tag is in the tag table exactly once, the links of
\* a job pointing to the rows of its own tags.
C28_AllInsertedAndCommitted ==
    /\ initdb.tx.jobs <= BundleSize
    /\ initdb.ret # "panic"
    /\ initdb.ret = "nil" =>
          /\ initdb.jobtbl = 1..initdb.n
          /\ initdb.committed = initdb.opened
          /\ ~initdb.tx.open
          /\ \A w \in initdb.wanted :
                /\ Cardinality({k \in 1..Len(initdb.tagtbl) :
                                   TagPair(initdb.tagtbl[k]) = w[2]}) = 1
                /\ \E k \in 1..Len(initdb.tagtbl) :
                      /\ TagPair(initdb.tagtbl[k]) = w[2]
                      /\ <<w[1], k>> \in initdb.jobtag
          /\ \A l \in initdb.jobtag :
                <<l[1], TagPair(initdb.tagtbl[l[2]])>> \in initdb.wanted

====
